---- MODULE Spec2Model ----
(***************************************************************************)
(* persian-fontkit: the optimization pipeline (optimizeFont /              *)
(* optimizeFonts) and the optimization result cache (FontCache).           *)
(*                                                                         *)
(* Files are the state: font inputs and optimized artifacts live in `fs`,  *)
(* cache entries live in `cache` (one JSON file per entry, one directory   *)
(* per cache root).  Every handler is one action.  `last` records the      *)
(* operation that has just run (arguments, what it returned or raised, a   *)
(* snapshot of what it saw before it ran); `prev` keeps the operation      *)
(* before it when both concern the same input path.                        *)
(***************************************************************************)
EXTENDS Integers, Sequences, FiniteSets, TLC

VARIABLES fs, cache, globalCache, constructed, now, last, prev, procs, alone,
          batch

vars == <<fs, cache, globalCache, constructed, now, last, prev, procs, alone,
         batch>>

----------------------------------------------------------------------------
(* Bounds                                                                  *)

MaxBatch == 3

\* the clock (Date.now()) runs from 0 to MaxClock
MaxClock == 2

\* getGlobalCache constructs at most MaxInstances instances
MaxInstances == 3

----------------------------------------------------------------------------
(* Paths.  A path is [dir, stem, ext]; basename = stem + ext.              *)

MkPath(d, s, e) == [dir |-> d, stem |-> s, ext |-> e]

EmptyPath == MkPath("", <<>>, "")

PathA     == MkPath("fonts", <<"vazir-bold">>, ".ttf")
PathA2    == MkPath("./fonts", <<"vazir-bold">>, ".ttf")
PathB     == MkPath("fonts", <<"sahel">>, ".OTF")
PathTxt   == MkPath("fonts", <<"notes">>, ".txt")
PathEmpty == MkPath("fonts", <<"empty">>, ".ttf")
PathBad   == MkPath("fonts", <<"broken">>, ".woff")
PathDir   == MkPath("fonts", <<"folder">>, ".ttf")
PathGone  == MkPath("fonts", <<"missing">>, ".ttf")

\* path.resolve: the absolute directory a spelling of a directory names
AbsDir(d) ==
  CASE d = "fonts"   -> "/cwd/fonts"
    [] d = "./fonts" -> "/cwd/fonts"
    [] d = "out"     -> "/cwd/out"
    [] d = "./out"   -> "/cwd/out"
    [] d = ""        -> "/cwd"
    [] OTHER         -> d

Resolve(p) == [p EXCEPT !.dir = AbsDir(p.dir)]

\* String.prototype.toLowerCase on the extensions in use
ToLowerCase(s) ==
  CASE s = ".OTF" -> ".otf"
    [] s = ".TTF" -> ".ttf"
    [] OTHER      -> s

extname(p)  == p.ext
basename(p) == [stem |-> p.stem, ext |-> p.ext]

----------------------------------------------------------------------------
(* Hashes.  MD5 is modelled as injective on the values in use.            *)

MD5(x) == <<"md5", x>>

\* generateHash: the first `length` hex digits of the MD5 of the content
generateHash(content) == <<"md5:8", content>>

----------------------------------------------------------------------------
(* File system: fs maps each existing absolute path to its node.           *)

FileNode(b) == [type |-> "file", bytes |-> b]
DirNode     == [type |-> "dir", bytes |-> <<>>]

Exists(f, p)     == Resolve(p) \in DOMAIN f
IsFile(f, p)     == Exists(f, p) /\ f[Resolve(p)].type = "file"
Bytes(f, p)      == f[Resolve(p)].bytes
StatSize(f, p)   == Len(f[Resolve(p)].bytes)

Put(m, k, v) == [x \in (DOMAIN m) \cup {k} |-> IF x = k THEN v ELSE m[x]]
Del(m, k)    == [x \in (DOMAIN m) \ {k} |-> m[x]]
EmptyMap     == [x \in {} |-> x]

\* fileExists: fs.access succeeds
fileExists(f, p) == Exists(f, p)

TtfA   == <<0, 1, 0, 0, 10, 11, 12, 13>>
TtfB   == <<116, 114, 117, 101, 20, 21, 22, 23, 24, 25>>
OttoB  == <<79, 84, 84, 79, 30, 31, 32, 33>>
BadSig == <<1, 2, 3>>

----------------------------------------------------------------------------
(* utils/file.ts                                                           *)

\* n / d rounded to the nearest integer, halves away from zero (toFixed)
RoundDiv(n, d) ==
  IF n >= 0 THEN (2 * n + d) \div (2 * d)
            ELSE 0 - ((2 * (0 - n) + d) \div (2 * d))

RECURSIVE Log1024(_)
\* Math.floor(Math.log(bytes) / Math.log(1024)) for bytes >= 1
Log1024(bytes) == IF bytes < 1024 THEN 0 ELSE 1 + Log1024(bytes \div 1024)

RECURSIVE Pow1024(_)
Pow1024(i) == IF i = 0 THEN 1 ELSE 1024 * Pow1024(i - 1)

SizeUnits == <<"B", "KB", "MB", "GB">>

\* formatFileSize: "<value rounded to 2 decimals> <unit>"; the value is
\* kept in hundredths
formatFileSize(bytes) ==
  IF bytes = 0 THEN [hundredths |-> 0, unit |-> "B"]
  ELSE LET i == Log1024(bytes)
       IN [hundredths |-> RoundDiv(bytes * 100, Pow1024(i)),
           unit |-> IF i + 1 <= Len(SizeUnits) THEN SizeUnits[i + 1]
                    ELSE "undefined"]

\* calculateReduction that cuts the digits after the first decimal off
calculateReduction_Truncates(original, optimized) ==
  IF original = 0 THEN [finite |-> FALSE, tenths |-> 0]
  ELSE [finite |-> TRUE,
        tenths |-> ((original - optimized) * 1000) \div original]

\* calculateReduction: ((original - optimized) / original * 100).toFixed(1),
\* kept in tenths of a percent
calculateReduction(original, optimized) ==
  IF original = 0 THEN [finite |-> FALSE, tenths |-> 0]
  ELSE [finite |-> TRUE,
        tenths |-> RoundDiv((original - optimized) * 1000, original)]

\* generateOptimizedFilename: `${baseName}-${hash}${extension}`
generateOptimizedFilename(originalName, hash, extension) ==
  [stem |-> Append(originalName.stem, hash), ext |-> extension]

\* getFontMetadata (the file exists; a missing file makes fs.stat throw)
getFontMetadata(f, filePath) ==
  [path |-> filePath,
   name |-> basename(filePath),
   extension |-> extname(filePath),
   size |-> StatSize(f, filePath),
   sizeFormatted |-> formatFileSize(StatSize(f, filePath))]

\* path.join(outputDir, outputFilename)
JoinPath(dirName, fileName) == MkPath(dirName, fileName.stem, fileName.ext)

\* writeFileBuffer: ensureDir(dirname) then fs.writeFile
writeFileBuffer(f, filePath, buffer) == Put(f, Resolve(filePath), FileNode(buffer))

----------------------------------------------------------------------------
(* errors.ts                                                               *)

NoError == <<>>

ValidationError(message, field, value) ==
  [name |-> "ValidationError", code |-> "VALIDATION_ERROR",
   message |-> message, field |-> field, value |-> <<value>>]

UnsupportedFormatError(message, format, supportedFormats) ==
  [name |-> "UnsupportedFormatError", code |-> "UNSUPPORTED_FORMAT_ERROR",
   message |-> message, format |-> format,
   supportedFormats |-> supportedFormats]

InvalidFontError(message, fontPath, reason) ==
  [name |-> "InvalidFontError", code |-> "INVALID_FONT_ERROR",
   message |-> message, fontPath |-> fontPath, reason |-> reason]

FontOptimizationError(message, fontPath, originalError) ==
  [name |-> "FontOptimizationError", code |-> "FONT_OPTIMIZATION_ERROR",
   message |-> message, fontPath |-> fontPath,
   originalError |-> originalError]

\* an Error thrown by the runtime or by the subsetting engine
SystemError(what) == [name |-> "Error", code |-> what, message |-> what]

----------------------------------------------------------------------------
(* Requests.  An OptimizationOptions object is a record that has a field   *)
(* exactly when the caller supplied it; a missing field is `undefined`.    *)

Has(o, k) == k \in DOMAIN o

\* the value of a subsets field: an array of names, or something else
ArrayOf(items) == [isArray |-> TRUE, items |-> items]
NotAnArray     == [isArray |-> FALSE, items |-> <<>>]

----------------------------------------------------------------------------
(* validation.ts                                                           *)

SUPPORTED_FORMATS        == {".ttf", ".otf", ".woff", ".woff2"}
SUPPORTED_OUTPUT_FORMATS == {"woff2", "woff", "ttf"}
ValidStyles              == {"normal", "italic"}
validDisplayValues       == {"auto", "block", "swap", "fallback", "optional"}

\* validateOptimizationOptions that reports an empty file as a ValidationError
validateOptimizationOptions_EmptyIsValidation(f, options) ==
  IF ~Has(options, "inputPath") \/ options.inputPath = EmptyPath
  THEN <<ValidationError("Input path is required", "inputPath", EmptyPath)>>
  ELSE IF ~Exists(f, options.inputPath)
  THEN <<ValidationError("Font file not found", "inputPath", options.inputPath)>>
  ELSE IF ToLowerCase(extname(options.inputPath)) \notin SUPPORTED_FORMATS
  THEN <<UnsupportedFormatError("Unsupported font format",
            ToLowerCase(extname(options.inputPath)), SUPPORTED_FORMATS)>>
  ELSE IF ~IsFile(f, options.inputPath)
  THEN <<ValidationError("Input path is not a file", "inputPath", options.inputPath)>>
  ELSE IF StatSize(f, options.inputPath) = 0
  THEN <<ValidationError("Font file is empty", "inputPath", options.inputPath)>>
  ELSE IF ~Has(options, "outputDir") \/ options.outputDir = ""
  THEN <<ValidationError("Output directory is required", "outputDir", "")>>
  ELSE IF Has(options, "format") /\ options.format # ""
          /\ options.format \notin SUPPORTED_OUTPUT_FORMATS
  THEN <<UnsupportedFormatError("Unsupported output format", options.format,
            SUPPORTED_OUTPUT_FORMATS)>>
  ELSE IF Has(options, "fontWeight")
          /\ (options.fontWeight < 100 \/ options.fontWeight > 900)
  THEN <<ValidationError("Font weight must be between 100 and 900",
            "fontWeight", options.fontWeight)>>
  ELSE IF Has(options, "fontStyle") /\ options.fontStyle # ""
          /\ options.fontStyle \notin ValidStyles
  THEN <<ValidationError("Font style must be normal or italic", "fontStyle",
            options.fontStyle)>>
  ELSE IF Has(options, "fontDisplay") /\ options.fontDisplay # ""
          /\ options.fontDisplay \notin validDisplayValues
  THEN <<ValidationError("Font display must be one of the valid values",
            "fontDisplay", options.fontDisplay)>>
  ELSE IF Has(options, "subsets") /\ ~options.subsets.isArray
  THEN <<ValidationError("Subsets must be an array", "subsets", options.subsets)>>
  ELSE NoError

\* validateOptimizationOptions that takes the two ends of the weight range
\* as out of range
validateOptimizationOptions_WeightExclusive(f, options) ==
  IF ~Has(options, "inputPath") \/ options.inputPath = EmptyPath
  THEN <<ValidationError("Input path is required", "inputPath", EmptyPath)>>
  ELSE IF ~Exists(f, options.inputPath)
  THEN <<ValidationError("Font file not found", "inputPath", options.inputPath)>>
  ELSE IF ToLowerCase(extname(options.inputPath)) \notin SUPPORTED_FORMATS
  THEN <<UnsupportedFormatError("Unsupported font format",
            ToLowerCase(extname(options.inputPath)), SUPPORTED_FORMATS)>>
  ELSE IF ~IsFile(f, options.inputPath)
  THEN <<ValidationError("Input path is not a file", "inputPath", options.inputPath)>>
  ELSE IF StatSize(f, options.inputPath) = 0
  THEN <<InvalidFontError("Font file is empty", options.inputPath,
            "File size is 0 bytes")>>
  ELSE IF ~Has(options, "outputDir") \/ options.outputDir = ""
  THEN <<ValidationError("Output directory is required", "outputDir", "")>>
  ELSE IF Has(options, "format") /\ options.format # ""
          /\ options.format \notin SUPPORTED_OUTPUT_FORMATS
  THEN <<UnsupportedFormatError("Unsupported output format", options.format,
            SUPPORTED_OUTPUT_FORMATS)>>
  ELSE IF Has(options, "fontWeight")
          /\ (options.fontWeight <= 100 \/ options.fontWeight >= 900)
  THEN <<ValidationError("Font weight must be between 100 and 900",
            "fontWeight", options.fontWeight)>>
  ELSE IF Has(options, "fontStyle") /\ options.fontStyle # ""
          /\ options.fontStyle \notin ValidStyles
  THEN <<ValidationError("Font style must be normal or italic", "fontStyle",
            options.fontStyle)>>
  ELSE IF Has(options, "fontDisplay") /\ options.fontDisplay # ""
          /\ options.fontDisplay \notin validDisplayValues
  THEN <<ValidationError("Font display must be one of the valid values",
            "fontDisplay", options.fontDisplay)>>
  ELSE IF Has(options, "subsets") /\ ~options.subsets.isArray
  THEN <<ValidationError("Subsets must be an array", "subsets", options.subsets)>>
  ELSE NoError

\* validateOptimizationOptions: <<>> when it returns, <<error>> when it throws
validateOptimizationOptions(f, options) ==
  IF ~Has(options, "inputPath") \/ options.inputPath = EmptyPath
  THEN <<ValidationError("Input path is required", "inputPath", EmptyPath)>>
  ELSE IF ~Exists(f, options.inputPath)
  THEN <<ValidationError("Font file not found", "inputPath", options.inputPath)>>
  ELSE IF ToLowerCase(extname(options.inputPath)) \notin SUPPORTED_FORMATS
  THEN <<UnsupportedFormatError("Unsupported font format",
            ToLowerCase(extname(options.inputPath)), SUPPORTED_FORMATS)>>
  ELSE IF ~IsFile(f, options.inputPath)
  THEN <<ValidationError("Input path is not a file", "inputPath", options.inputPath)>>
  ELSE IF StatSize(f, options.inputPath) = 0
  THEN <<InvalidFontError("Font file is empty", options.inputPath,
            "File size is 0 bytes")>>
  ELSE IF ~Has(options, "outputDir") \/ options.outputDir = ""
  THEN <<ValidationError("Output directory is required", "outputDir", "")>>
  ELSE IF Has(options, "format") /\ options.format # ""
          /\ options.format \notin SUPPORTED_OUTPUT_FORMATS
  THEN <<UnsupportedFormatError("Unsupported output format", options.format,
            SUPPORTED_OUTPUT_FORMATS)>>
  ELSE IF Has(options, "fontWeight")
          /\ (options.fontWeight < 100 \/ options.fontWeight > 900)
  THEN <<ValidationError("Font weight must be between 100 and 900",
            "fontWeight", options.fontWeight)>>
  ELSE IF Has(options, "fontStyle") /\ options.fontStyle # ""
          /\ options.fontStyle \notin ValidStyles
  THEN <<ValidationError("Font style must be normal or italic", "fontStyle",
            options.fontStyle)>>
  ELSE IF Has(options, "fontDisplay") /\ options.fontDisplay # ""
          /\ options.fontDisplay \notin validDisplayValues
  THEN <<ValidationError("Font display must be one of the valid values",
            "fontDisplay", options.fontDisplay)>>
  ELSE IF Has(options, "subsets") /\ ~options.subsets.isArray
  THEN <<ValidationError("Subsets must be an array", "subsets", options.subsets)>>
  ELSE NoError

\* buffer[0..3] are exactly the four bytes sig
StartsWith(buffer, sig) == Len(buffer) >= 4 /\ SubSeq(buffer, 1, 4) = sig

\* validateFontFile: signature check by extension; readFails is a failing
\* fs.readFileSync
validateFontFile(f, filePath, readFails) ==
  IF readFails \/ ~IsFile(f, filePath) THEN <<SystemError("readFileSync")>>
  ELSE LET buffer == Bytes(f, filePath)
           ext    == ToLowerCase(extname(filePath))
       IN CASE ext = ".ttf" ->
                 IF ~(StartsWith(buffer, <<0, 1, 0, 0>>)
                      \/ StartsWith(buffer, <<116, 114, 117, 101>>))
                 THEN <<InvalidFontError("Invalid TTF file signature", filePath,
                           "File does not start with expected TTF header")>>
                 ELSE NoError
            [] ext = ".otf" ->
                 IF ~StartsWith(buffer, <<79, 84, 84, 79>>)
                 THEN <<InvalidFontError("Invalid OTF file signature", filePath,
                           "File does not start with 'OTTO' header")>>
                 ELSE NoError
            [] ext = ".woff" ->
                 IF ~StartsWith(buffer, <<119, 79, 70, 70>>)
                 THEN <<InvalidFontError("Invalid WOFF file signature", filePath,
                           "File does not start with 'wOFF' header")>>
                 ELSE NoError
            [] ext = ".woff2" ->
                 IF ~StartsWith(buffer, <<119, 79, 70, 50>>)
                 THEN <<InvalidFontError("Invalid WOFF2 file signature", filePath,
                           "File does not start with 'wOF2' header")>>
                 ELSE NoError
            [] OTHER -> NoError

----------------------------------------------------------------------------
(* utils/cache.ts: FontCache.  `c` maps every existing cache directory to  *)
(* its files (cache key -> file content); `dir` is the instance's cacheDir.*)

cacheVersion == "1.0.0"

DefaultCacheDir == "./.persian-fontkit-cache"

NullResult == [kind |-> "null"]

\* JSON.stringify(entry) written to <key>.json, and what JSON.parse gives back
EntryFile(entry) == [kind |-> "json", entry |-> entry]
Parseable(file)  == file.kind = "json"

\* an entry file that JSON.parse rejects (truncated or overwritten)
CorruptFile(text) == [kind |-> "corrupt", text |-> text]

\* getCacheKey that hashes the directory of the path only
getCacheKey_DirOnly(filePath) ==
  MD5([Resolve(filePath) EXCEPT !.stem = <<>>, !.ext = ""])

\* getCacheKey that hashes the path as it is spelled
getCacheKey_Unresolved(filePath) == MD5(filePath)

\* getCacheKey: md5 of the resolved absolute path
getCacheKey(filePath) == MD5(Resolve(filePath))

\* getFileHash that hashes the first four bytes of the file only
getFileHash_OfTheHeader(f, filePath) ==
  MD5(SubSeq(Bytes(f, filePath), 1, 4))

\* getFileHash: md5 of the file's bytes (fs.readFile throws unless a file)
getFileHash(f, filePath) == MD5(Bytes(f, filePath))

HasEntry(c, dir, inputPath) ==
  dir \in DOMAIN c /\ getCacheKey(inputPath) \in DOMAIN c[dir]

EntryOf(c, dir, inputPath) == c[dir][getCacheKey(inputPath)]

\* formatFileSize, the private copy of FontCache
FontCache_formatFileSize(bytes) ==
  IF bytes = 0 THEN [hundredths |-> 0, unit |-> "B"]
  ELSE LET i == Log1024(bytes)
       IN [hundredths |-> RoundDiv(bytes * 100, Pow1024(i)),
           unit |-> IF i + 1 <= Len(SizeUnits) THEN SizeUnits[i + 1]
                    ELSE "undefined"]

\* entryToResult
entryToResult(entry, inputPath) ==
  [kind |-> "result",
   original |->
     [path |-> inputPath,
      name |-> basename(inputPath),
      extension |-> extname(inputPath),
      size |-> entry.result.originalSize,
      sizeFormatted |-> FontCache_formatFileSize(entry.result.originalSize)],
   optimized |->
     [path |-> entry.result.outputPath,
      name |-> basename(entry.result.outputPath),
      extension |-> extname(entry.result.outputPath),
      size |-> entry.result.optimizedSize,
      sizeFormatted |-> FontCache_formatFileSize(entry.result.optimizedSize)],
   reduction |-> entry.result.reduction,
   css |-> entry.result.cssContent,
   fontFamily |-> entry.result.fontFamily,
   fontWeight |-> entry.result.fontWeight]

\* MakeEntry with the two sizes stored in each other's field
MakeEntry_SizesSwapped(f, inputPath, result, t, version) ==
  [inputHash |-> getFileHash(f, inputPath),
   timestamp |-> t,
   version |-> version,
   result |->
     [originalSize |-> result.optimized.size,
      optimizedSize |-> result.original.size,
      reduction |-> result.reduction,
      fontFamily |-> result.fontFamily,
      fontWeight |-> result.fontWeight,
      outputPath |-> result.optimized.path,
      cssContent |-> result.css]]

\* the CacheEntry that set builds
MakeEntry(f, inputPath, result, t, version) ==
  [inputHash |-> getFileHash(f, inputPath),
   timestamp |-> t,
   version |-> version,
   result |->
     [originalSize |-> result.original.size,
      optimizedSize |-> result.optimized.size,
      reduction |-> result.reduction,
      fontFamily |-> result.fontFamily,
      fontWeight |-> result.fontWeight,
      outputPath |-> result.optimized.path,
      cssContent |-> result.css]]

\* FontCache.delete: the cache after it
\* FontCache.delete that unlinks every entry file of the directory
FontCache_delete_AllKeys(c, dir, inputPath, fault) ==
  IF HasEntry(c, dir, inputPath) /\ fault # "unlink"
  THEN [c EXCEPT ![dir] = EmptyMap]
  ELSE c

\* FontCache.delete: the cache after it (a failing unlink is ignored)
FontCache_delete(c, dir, inputPath, fault) ==
  IF HasEntry(c, dir, inputPath) /\ fault # "unlink"
  THEN [c EXCEPT ![dir] = Del(@, getCacheKey(inputPath))]
  ELSE c

\* FontCache.get that reports a changed input as a miss but keeps the entry
FontCache_get_KeepsStale(c, f, dir, inputPath, fault) ==
  IF ~HasEntry(c, dir, inputPath)
  THEN [ret |-> NullResult, cache |-> c]
  ELSE IF fault = "readFile" \/ ~Parseable(EntryOf(c, dir, inputPath))
  THEN [ret |-> NullResult, cache |-> c]
  ELSE LET entry == EntryOf(c, dir, inputPath).entry
       IN IF entry.version # cacheVersion
          THEN [ret |-> NullResult, cache |-> FontCache_delete(c, dir, inputPath, fault)]
          ELSE IF ~IsFile(f, inputPath)
          THEN [ret |-> NullResult, cache |-> c]
          ELSE IF entry.inputHash # getFileHash(f, inputPath)
          THEN [ret |-> NullResult, cache |-> c]
          ELSE IF ~fileExists(f, entry.result.outputPath)
          THEN [ret |-> NullResult, cache |-> FontCache_delete(c, dir, inputPath, fault)]
          ELSE [ret |-> entryToResult(entry, inputPath), cache |-> c]

\* FontCache.get without the check that the output file still exists
FontCache_get_NoOutputCheck(c, f, dir, inputPath, fault) ==
  IF ~HasEntry(c, dir, inputPath)
  THEN [ret |-> NullResult, cache |-> c]
  ELSE IF fault = "readFile" \/ ~Parseable(EntryOf(c, dir, inputPath))
  THEN [ret |-> NullResult, cache |-> c]
  ELSE LET entry == EntryOf(c, dir, inputPath).entry
       IN IF entry.version # cacheVersion
          THEN [ret |-> NullResult, cache |-> FontCache_delete(c, dir, inputPath, fault)]
          ELSE IF ~IsFile(f, inputPath)
          THEN [ret |-> NullResult, cache |-> c]
          ELSE IF entry.inputHash # getFileHash(f, inputPath)
          THEN [ret |-> NullResult, cache |-> FontCache_delete(c, dir, inputPath, fault)]
          ELSE [ret |-> entryToResult(entry, inputPath), cache |-> c]

\* FontCache.get without the version check
FontCache_get_NoVersionCheck(c, f, dir, inputPath, fault) ==
  IF ~HasEntry(c, dir, inputPath)
  THEN [ret |-> NullResult, cache |-> c]
  ELSE IF fault = "readFile" \/ ~Parseable(EntryOf(c, dir, inputPath))
  THEN [ret |-> NullResult, cache |-> c]
  ELSE LET entry == EntryOf(c, dir, inputPath).entry
       IN IF ~IsFile(f, inputPath)
          THEN [ret |-> NullResult, cache |-> c]
          ELSE IF entry.inputHash # getFileHash(f, inputPath)
          THEN [ret |-> NullResult, cache |-> FontCache_delete(c, dir, inputPath, fault)]
          ELSE IF ~fileExists(f, entry.result.outputPath)
          THEN [ret |-> NullResult, cache |-> FontCache_delete(c, dir, inputPath, fault)]
          ELSE [ret |-> entryToResult(entry, inputPath), cache |-> c]

\* FontCache.get that does not compare the hash of the input
FontCache_get_NoHashCheck(c, f, dir, inputPath, fault) ==
  IF ~HasEntry(c, dir, inputPath)
  THEN [ret |-> NullResult, cache |-> c]
  ELSE IF fault = "readFile" \/ ~Parseable(EntryOf(c, dir, inputPath))
  THEN [ret |-> NullResult, cache |-> c]
  ELSE LET entry == EntryOf(c, dir, inputPath).entry
       IN IF entry.version # cacheVersion
          THEN [ret |-> NullResult, cache |-> FontCache_delete(c, dir, inputPath, fault)]
          ELSE IF ~IsFile(f, inputPath)
          THEN [ret |-> NullResult, cache |-> c]
          ELSE IF ~fileExists(f, entry.result.outputPath)
          THEN [ret |-> NullResult, cache |-> FontCache_delete(c, dir, inputPath, fault)]
          ELSE [ret |-> entryToResult(entry, inputPath), cache |-> c]

\* FontCache.get that deletes an entry it cannot parse
FontCache_get_DeletesCorrupt(c, f, dir, inputPath, fault) ==
  IF ~HasEntry(c, dir, inputPath)
  THEN [ret |-> NullResult, cache |-> c]
  ELSE IF fault = "readFile"
  THEN [ret |-> NullResult, cache |-> c]
  ELSE IF ~Parseable(EntryOf(c, dir, inputPath))
  THEN [ret |-> NullResult, cache |-> FontCache_delete(c, dir, inputPath, fault)]
  ELSE LET entry == EntryOf(c, dir, inputPath).entry
       IN IF entry.version # cacheVersion
          THEN [ret |-> NullResult, cache |-> FontCache_delete(c, dir, inputPath, fault)]
          ELSE IF ~IsFile(f, inputPath)
          THEN [ret |-> NullResult, cache |-> c]
          ELSE IF entry.inputHash # getFileHash(f, inputPath)
          THEN [ret |-> NullResult, cache |-> FontCache_delete(c, dir, inputPath, fault)]
          ELSE IF ~fileExists(f, entry.result.outputPath)
          THEN [ret |-> NullResult, cache |-> FontCache_delete(c, dir, inputPath, fault)]
          ELSE [ret |-> entryToResult(entry, inputPath), cache |-> c]

\* FontCache.get: what it returns and the cache after it.  fault names the
\* I/O call that fails during this call, if any.
FontCache_get(c, f, dir, inputPath, fault) ==
  IF ~HasEntry(c, dir, inputPath)
  THEN [ret |-> NullResult, cache |-> c]
  ELSE IF fault = "readFile" \/ ~Parseable(EntryOf(c, dir, inputPath))
  THEN [ret |-> NullResult, cache |-> c]
  ELSE LET entry == EntryOf(c, dir, inputPath).entry
       IN IF entry.version # cacheVersion
          THEN [ret |-> NullResult, cache |-> FontCache_delete(c, dir, inputPath, fault)]
          ELSE IF ~IsFile(f, inputPath)
          THEN [ret |-> NullResult, cache |-> c]
          ELSE IF entry.inputHash # getFileHash(f, inputPath)
          THEN [ret |-> NullResult, cache |-> FontCache_delete(c, dir, inputPath, fault)]
          ELSE IF ~fileExists(f, entry.result.outputPath)
          THEN [ret |-> NullResult, cache |-> FontCache_delete(c, dir, inputPath, fault)]
          ELSE [ret |-> entryToResult(entry, inputPath), cache |-> c]

\* FontCache.set without ensureDir: the write fails in a directory that does
\* not exist yet, and the failure is swallowed
FontCache_set_NoEnsureDir(c, f, dir, inputPath, result, t, fault) ==
  IF dir \notin DOMAIN c \/ ~IsFile(f, inputPath) \/ fault = "writeFile"
  THEN c
  ELSE [c EXCEPT ![dir] =
          Put(@, getCacheKey(inputPath),
              EntryFile(MakeEntry(f, inputPath, result, t, cacheVersion)))]

\* FontCache.set: the cache after it (it never throws).  fs.writeFile opens
\* the entry file, which empties it, and then writes: "writeFile" is a
\* failure to open, "truncate" a failure of the write after the open
FontCache_set(c, f, dir, inputPath, result, t, fault) ==
  IF fault = "mkdir" THEN c
  ELSE LET c1 == IF dir \in DOMAIN c THEN c ELSE Put(c, dir, EmptyMap)
       IN IF ~IsFile(f, inputPath) \/ fault = "writeFile" THEN c1
          ELSE IF fault = "truncate"
          THEN [c1 EXCEPT ![dir] = Put(@, getCacheKey(inputPath), CorruptFile(<<>>))]
          ELSE [c1 EXCEPT ![dir] =
                  Put(@, getCacheKey(inputPath),
                      EntryFile(MakeEntry(f, inputPath, result, t, cacheVersion)))]

RECURSIVE Digits(_)
\* the number of decimal digits of n
Digits(n) == IF n < 10 THEN 1 ELSE 1 + Digits(n \div 10)

\* the length of JSON.stringify(entry, null, 2), in which the keys, the
\* punctuation and the strings take a fixed number of characters and the
\* numbers their digits
JsonLength(entry) ==
  400 + Digits(entry.timestamp)
      + Digits(entry.result.originalSize)
      + Digits(entry.result.optimizedSize)
      + Digits(entry.result.fontWeight)

\* an entry file that holds the text of entry followed by what was left of
\* a longer text written before it; JSON.parse rejects it
MixedFile(entry, size) == [kind |-> "mixed", head |-> entry, size |-> size]

\* a file of the directory that is not an entry file: its name does not
\* end in .json
StrayName == <<"name", ".DS_Store">>
StrayFile == [kind |-> "stray", text |-> <<0, 0, 0, 1>>]

\* file.endsWith(".json"): the entry files are named <md5>.json
endsWithJson(name) == name[1] = "md5"

\* stats.size of a file of the directory
FileSize(file) ==
  CASE file.kind = "json"    -> JsonLength(file.entry)
    [] file.kind = "corrupt" -> Len(file.text)
    [] file.kind = "mixed"   -> file.size
    [] file.kind = "stray"   -> Len(file.text)

\* the files of the instance's directory (fs.readdir), none if it is missing
FilesOf(c, dir) == IF dir \in DOMAIN c THEN c[dir] ELSE EmptyMap

\* FontCache.clear that only tries to remove the directory
FontCache_clear_RmdirOnly(c, dir, fault, failing) ==
  IF dir \notin DOMAIN c \/ fault = "readdir" THEN c
  ELSE IF DOMAIN c[dir] = {} THEN Del(c, dir) ELSE c

\* FontCache.clear that unlinks the entry files only
FontCache_clear_JsonOnly(c, dir, fault, failing) ==
  IF dir \notin DOMAIN c \/ fault = "readdir" THEN c
  ELSE LET stay == {k \in DOMAIN c[dir] :
                      \/ ~endsWithJson(k)
                      \/ fault = "unlink" /\ k \in failing}
       IN IF stay = {} THEN Del(c, dir)
          ELSE [c EXCEPT ![dir] = [k \in stay |-> c[dir][k]]]

\* FontCache.clear: every file is unlinked, a failing unlink is ignored; the
\* directory is removed if it is empty then
FontCache_clear(c, dir, fault, failing) ==
  IF dir \notin DOMAIN c \/ fault = "readdir" THEN c
  ELSE LET stay == IF fault = "unlink" THEN DOMAIN c[dir] \cap failing ELSE {}
       IN IF stay = {} THEN Del(c, dir)
          ELSE [c EXCEPT ![dir] = [k \in stay |-> c[dir][k]]]

NoStats ==
  [entries |-> 0, totalSize |-> 0, oldestEntry |-> <<>>, newestEntry |-> <<>>]

RECURSIVE StatsLoop_CountsParseable(_, _, _, _, _)
\* the loop of getStats that counts only the entries it could parse
StatsLoop_CountsParseable(files, todo, fault, failing, acc) ==
  IF todo = {} THEN acc
  ELSE LET k == CHOOSE x \in todo : TRUE
           readable == Parseable(files[k]) /\ ~(fault = "readFile" /\ k \in failing)
           t == files[k].entry.timestamp
       IN StatsLoop_CountsParseable(files, todo \ {k}, fault, failing,
            IF readable
            THEN [entries |-> acc.entries + 1,
                  totalSize |-> acc.totalSize + FileSize(files[k]),
                  oldestEntry |-> IF acc.oldestEntry = <<>> \/ t < acc.oldestEntry[1]
                                  THEN <<t>> ELSE acc.oldestEntry,
                  newestEntry |-> IF acc.newestEntry = <<>> \/ t > acc.newestEntry[1]
                                  THEN <<t>> ELSE acc.newestEntry]
            ELSE acc)

RECURSIVE StatsLoop_NoInnerTry(_, _, _, _, _)
\* the loop of getStats without the try around the read of one entry: an
\* entry that cannot be read or parsed ends getStats in its outer catch
StatsLoop_NoInnerTry(files, todo, fault, failing, acc) ==
  IF todo = {} THEN acc
  ELSE LET k == CHOOSE x \in todo : TRUE
           readable == Parseable(files[k]) /\ ~(fault = "readFile" /\ k \in failing)
           t == files[k].entry.timestamp
       IN IF ~readable THEN NoStats
          ELSE LET rest == StatsLoop_NoInnerTry(files, todo \ {k}, fault, failing,
                             [entries |-> acc.entries + 1,
                              totalSize |-> acc.totalSize + FileSize(files[k]),
                              oldestEntry |-> IF acc.oldestEntry = <<>> \/ t < acc.oldestEntry[1]
                                              THEN <<t>> ELSE acc.oldestEntry,
                              newestEntry |-> IF acc.newestEntry = <<>> \/ t > acc.newestEntry[1]
                                              THEN <<t>> ELSE acc.newestEntry])
               IN rest

RECURSIVE StatsLoop(_, _, _, _, _)
\* the for loop of getStats over the files still to visit; null is <<>>
StatsLoop(files, todo, fault, failing, acc) ==
  IF todo = {} THEN acc
  ELSE LET k == CHOOSE x \in todo : TRUE
           readable == Parseable(files[k]) /\ ~(fault = "readFile" /\ k \in failing)
           t == files[k].entry.timestamp
           sized == [acc EXCEPT !.entries = @ + 1,
                                !.totalSize = @ + FileSize(files[k])]
       IN StatsLoop(files, todo \ {k}, fault, failing,
            IF readable
            THEN [sized EXCEPT
                    !.oldestEntry = IF @ = <<>> \/ t < @[1] THEN <<t>> ELSE @,
                    !.newestEntry = IF @ = <<>> \/ t > @[1] THEN <<t>> ELSE @]
            ELSE sized)

\* FontCache.getStats
FontCache_getStats(c, dir, fault, failing) ==
  IF dir \notin DOMAIN c THEN NoStats
  ELSE IF fault = "readdir" THEN NoStats
  ELSE LET json == {k \in DOMAIN c[dir] : endsWithJson(k)}
       IN IF fault = "stat" /\ json \cap failing # {} THEN NoStats
          ELSE StatsLoop(c[dir], json, fault, failing, NoStats)

\* the entries cleanOld unlinks: those it can read and parse, older than
\* maxAgeMs, whose unlink does not fail
Expired(files, maxAgeMs, t, fault, failing) ==
  {k \in DOMAIN files :
     /\ endsWithJson(k)
     /\ Parseable(files[k])
     /\ ~(fault \in {"readFile", "unlink"} /\ k \in failing)
     /\ t - files[k].entry.timestamp > maxAgeMs}

\* FontCache.cleanOld that also removes the entries exactly maxAgeMs old
FontCache_cleanOld_NotStrict(c, dir, maxAgeMs, t, fault, failing) ==
  IF dir \notin DOMAIN c \/ fault = "readdir" THEN [ret |-> 0, cache |-> c]
  ELSE LET gone == {k \in DOMAIN c[dir] :
                      /\ endsWithJson(k)
                      /\ Parseable(c[dir][k])
                      /\ ~(fault \in {"readFile", "unlink"} /\ k \in failing)
                      /\ t - c[dir][k].entry.timestamp >= maxAgeMs}
       IN [ret |-> Cardinality(gone),
           cache |-> [c EXCEPT ![dir] = [k \in DOMAIN @ \ gone |-> @[k]]]]

\* FontCache.cleanOld: the count it returns and the cache after it
FontCache_cleanOld(c, dir, maxAgeMs, t, fault, failing) ==
  IF dir \notin DOMAIN c \/ fault = "readdir" THEN [ret |-> 0, cache |-> c]
  ELSE LET gone == Expired(c[dir], maxAgeMs, t, fault, failing)
       IN [ret |-> Cardinality(gone),
           cache |-> [c EXCEPT ![dir] = [k \in DOMAIN @ \ gone |-> @[k]]]]

(* Calls in flight.  Every await of get, set and delete is a point where   *)
(* another call can run; fs.writeFile is an open, which empties the file,  *)
(* followed by a write at the start of the file.                           *)

\* a call that is not running; ret is <<>> or <<what the last call returned>>
Idle ==
  [pc |-> "idle", op |-> "none", path |-> EmptyPath, result |-> <<>>,
   entry |-> <<>>, ret |-> <<>>]

\* the call op(path[, result]) about to run
Call(op, path, result) ==
  [pc |-> "start", op |-> op, path |-> path, result |-> result,
   entry |-> <<>>, ret |-> <<>>]

\* the call pr has returned ret
Done(ret) == [Idle EXCEPT !.ret = <<ret>>]

\* the file after text `own` is written at its start
Overlay(cur, own) ==
  IF FileSize(own) >= FileSize(cur) THEN own
  ELSE MixedFile(own.entry, FileSize(cur))

\* set, one await at a time: ensureDir, getFileHash and the entry; the open
\* of fs.writeFile; its write (which goes to a file that is no longer in
\* the directory if the file was unlinked since the open)
StepSet(c, f, dir, pr, t) ==
  LET key == getCacheKey(pr.path)
      c1  == IF dir \in DOMAIN c THEN c ELSE Put(c, dir, EmptyMap)
  IN CASE pr.pc = "start" ->
            IF ~IsFile(f, pr.path)
            THEN [cache |-> c1, proc |-> Done("void")]
            ELSE [cache |-> c1,
                  proc |-> [pr EXCEPT !.pc = "open",
                              !.entry = <<MakeEntry(f, pr.path, pr.result[1], t,
                                                    cacheVersion)>>]]
       [] pr.pc = "open" ->
            [cache |-> [c1 EXCEPT ![dir] = Put(@, key, CorruptFile(<<>>))],
             proc |-> [pr EXCEPT !.pc = "write"]]
       [] pr.pc = "write" ->
            [cache |-> IF HasEntry(c, dir, pr.path)
                       THEN [c EXCEPT ![dir][key] =
                               Overlay(@, EntryFile(pr.entry[1]))]
                       ELSE c,
             proc |-> Done("void")]

\* get, one await at a time: the fileExists of the entry file; the readFile
\* (which throws if the file is gone by now), the parse and the version
\* check; getFileHash of the input; the fileExists of the output file; and,
\* for an entry judged stale, the fileExists and the unlink of this.delete,
\* which act on the file that is at the entry's path by then
StepGet(c, f, dir, pr) ==
  CASE pr.pc = "start" ->
         IF ~HasEntry(c, dir, pr.path)
         THEN [cache |-> c, proc |-> Done(NullResult)]
         ELSE [cache |-> c, proc |-> [pr EXCEPT !.pc = "read"]]
    [] pr.pc = "read" ->
         IF ~HasEntry(c, dir, pr.path) \/ ~Parseable(EntryOf(c, dir, pr.path))
         THEN [cache |-> c, proc |-> Done(NullResult)]
         ELSE LET entry == EntryOf(c, dir, pr.path).entry
              IN [cache |-> c,
                  proc |-> [pr EXCEPT !.entry = <<entry>>,
                              !.pc = IF entry.version # cacheVersion
                                     THEN "exists" ELSE "hash"]]
    [] pr.pc = "hash" ->
         IF ~IsFile(f, pr.path)
         THEN [cache |-> c, proc |-> Done(NullResult)]
         ELSE [cache |-> c,
               proc |-> [pr EXCEPT !.pc =
                           IF pr.entry[1].inputHash # getFileHash(f, pr.path)
                           THEN "exists" ELSE "output"]]
    [] pr.pc = "output" ->
         IF ~fileExists(f, pr.entry[1].result.outputPath)
         THEN [cache |-> c, proc |-> [pr EXCEPT !.pc = "exists"]]
         ELSE [cache |-> c, proc |-> Done(entryToResult(pr.entry[1], pr.path))]
    [] pr.pc = "exists" ->
         IF ~HasEntry(c, dir, pr.path)
         THEN [cache |-> c, proc |-> Done(NullResult)]
         ELSE [cache |-> c, proc |-> [pr EXCEPT !.pc = "unlink"]]
    [] pr.pc = "unlink" ->
         [cache |-> FontCache_delete(c, dir, pr.path, "none"),
          proc |-> Done(NullResult)]

\* delete, one await at a time: the fileExists; then the unlink
StepDelete(c, dir, pr) ==
  CASE pr.pc = "start" ->
         IF ~HasEntry(c, dir, pr.path)
         THEN [cache |-> c, proc |-> Done("void")]
         ELSE [cache |-> c, proc |-> [pr EXCEPT !.pc = "unlink"]]
    [] pr.pc = "unlink" ->
         [cache |-> FontCache_delete(c, dir, pr.path, "none"),
          proc |-> Done("void")]

\* the next await of the call pr
StepProc(c, f, dir, pr, t) ==
  CASE pr.op = "set"    -> StepSet(c, f, dir, pr, t)
    [] pr.op = "get"    -> StepGet(c, f, dir, pr)
    [] pr.op = "delete" -> StepDelete(c, dir, pr)
    [] OTHER            -> [cache |-> c, proc |-> pr]

\* getGlobalCache: the global instance (its cacheDir) after the call
NoInstance == "no instance"

\* getGlobalCache that keeps the instance there is, whatever its directory
getGlobalCache_KeepsInstance(g, o) ==
  IF g = NoInstance
  THEN IF Has(o, "cacheDir") THEN o.cacheDir ELSE DefaultCacheDir
  ELSE g

\* getGlobalCache that goes back to the default directory when it is called
\* without one
getGlobalCache_DefaultWhenUnnamed(g, o) ==
  IF Has(o, "cacheDir") /\ o.cacheDir # ""
  THEN o.cacheDir
  ELSE DefaultCacheDir

getGlobalCache(g, o) ==
  IF g = NoInstance \/ (Has(o, "cacheDir") /\ o.cacheDir # "" /\ g # o.cacheDir)
  THEN IF Has(o, "cacheDir") THEN o.cacheDir ELSE DefaultCacheDir
  ELSE g

\* how many instances a call, or calls with the same cacheDir, that took
\* the global instance from g to g2 constructed: new FontCache(cacheDir)
\* runs exactly when the instance is missing or bound to another directory
Constructions(g, g2) == IF g2 # g THEN 1 ELSE 0

\* disableCache: the global instance after the call
disableCache == NoInstance

----------------------------------------------------------------------------
(* utils/subsetConfig.ts                                                   *)

\* SUBSET_CONFIGS: the unicode ranges of each subset, as <<first, last>>
SUBSET_CONFIGS ==
  [farsi |-> << <<1536, 1791>>, <<1872, 1919>>, <<64336, 65023>>,
                <<65136, 65279>>, <<8204, 8206>>, <<8208, 8217>>,
                <<171, 171>>, <<187, 187>> >>,
   latin |-> << <<32, 126>>, <<160, 255>> >>,
   numbers |-> << <<48, 57>>, <<1776, 1785>>, <<1632, 1641>> >>,
   punctuation |-> << <<32, 47>>, <<58, 64>>, <<91, 96>>, <<123, 126>>,
                      <<1548, 1548>>, <<1563, 1563>>, <<1567, 1567>> >>]

DEFAULT_SUBSETS == <<"farsi", "latin", "numbers", "punctuation">>

RECURSIVE getSubsetCharacters_UnknownIsLatin(_)
\* getSubsetCharacters that takes an unknown name for the latin subset
getSubsetCharacters_UnknownIsLatin(subsets) ==
  IF subsets = <<>> THEN <<>>
  ELSE (IF Head(subsets) \in DOMAIN SUBSET_CONFIGS
        THEN SUBSET_CONFIGS[Head(subsets)] ELSE SUBSET_CONFIGS["latin"])
       \o getSubsetCharacters_UnknownIsLatin(Tail(subsets))

RECURSIVE getSubsetCharacters(_)
\* getSubsetCharacters: the characters of the named subsets in order, kept
\* as the list of code-point runs; an unknown name contributes nothing
getSubsetCharacters(subsets) ==
  IF subsets = <<>> THEN <<>>
  ELSE (IF Head(subsets) \in DOMAIN SUBSET_CONFIGS
        THEN SUBSET_CONFIGS[Head(subsets)] ELSE <<>>)
       \o getSubsetCharacters(Tail(subsets))

RECURSIVE TextLength(_)
\* characters.join("").length
TextLength(runs) ==
  IF runs = <<>> THEN 0
  ELSE (Head(runs)[2] - Head(runs)[1] + 1) + TextLength(Tail(runs))

----------------------------------------------------------------------------
(* Collaborators                                                           *)

\* generateFontFace (utils/css): the @font-face fragment of one font
generateFontFace(fontFaceOptions) == <<"@font-face", fontFaceOptions>>

\* subset-font: the bytes a successful call returns, a function of the
\* buffer, the text and the target format
FormatMagic(targetFormat) ==
  CASE targetFormat = "woff2"    -> <<119, 79, 70, 50>>
    [] targetFormat = "woff"     -> <<119, 79, 70, 70>>
    [] targetFormat = "truetype" -> <<0, 1, 0, 0>>
    [] OTHER                     -> <<0, 0, 0, 0>>

subsetFont(fontBuffer, text, targetFormat) ==
  FormatMagic(targetFormat) \o <<fontBuffer[Len(fontBuffer)], TextLength(text) % 256>>

EngineOutcomes == {"ok", "throw", "empty"}

----------------------------------------------------------------------------
(* optimizer.ts: optimizeFont                                              *)

Raised(e) == [kind |-> "error", error |-> e]

\* the destructured options with their defaults
Opt(o, k, default) == IF Has(o, k) THEN o[k] ELSE default

\* the outcome of one call: what it returns or raises, the stores after it,
\* the I/O steps it attempted in order, and the first error thrown inside
Outcome(out, f, c, g, ev, origin) ==
  [outcome |-> out, fs |-> f, cache |-> c, globalCache |-> g,
   events |-> ev, origin |-> origin]

\* what the try block did: thrown is <<>> when it ran to its return
Thrown(e, f, c, g, ev, origin) ==
  [thrown |-> <<e>>, result |-> NullResult, fs |-> f, cache |-> c,
   globalCache |-> g, events |-> ev, origin |-> origin]

Returned(result, f, c, g, ev) ==
  [thrown |-> <<>>, result |-> result, fs |-> f, cache |-> c,
   globalCache |-> g, events |-> ev, origin |-> <<>>]

FormatExtension(format) ==
  CASE format = "woff2" -> ".woff2"
    [] format = "woff"  -> ".woff"
    [] format = "ttf"   -> ".ttf"
    [] OTHER            -> "."

\* OutputFilename that names the file after the font family when there is
\* no hash
OutputFilename_UsesFamily(o, originalMeta, subsetBuffer) ==
  IF Opt(o, "useHash", TRUE)
  THEN generateOptimizedFilename(originalMeta.name, generateHash(subsetBuffer),
                                 FormatExtension(Opt(o, "format", "woff2")))
  ELSE [stem |-> IF Has(o, "fontFamily") /\ o.fontFamily # <<>>
                 THEN o.fontFamily ELSE originalMeta.name.stem,
        ext |-> FormatExtension(Opt(o, "format", "woff2"))]

\* lines 189-198: the output path of the optimized font
OutputFilename(o, originalMeta, subsetBuffer) ==
  IF Opt(o, "useHash", TRUE)
  THEN generateOptimizedFilename(originalMeta.name, generateHash(subsetBuffer),
                                 FormatExtension(Opt(o, "format", "woff2")))
  ELSE [stem |-> originalMeta.name.stem,
        ext |-> FormatExtension(Opt(o, "format", "woff2"))]

\* lines 203-227: the result built once the optimized font is on disk
BuildResult(f2, o, originalMeta, family, outputFilename) ==
  LET optimizedMeta == getFontMetadata(f2, JoinPath(o.outputDir, outputFilename))
  IN [kind |-> "result",
      original |-> originalMeta,
      optimized |-> optimizedMeta,
      reduction |-> calculateReduction(originalMeta.size, optimizedMeta.size),
      css |-> generateFontFace(
                [fontFamily |-> family,
                 fontPath |-> <<"./", outputFilename>>,
                 fontWeight |-> Opt(o, "fontWeight", 400),
                 fontStyle |-> Opt(o, "fontStyle", "normal"),
                 fontDisplay |-> Opt(o, "fontDisplay", "swap")]),
      fontFamily |-> family,
      fontWeight |-> Opt(o, "fontWeight", 400)]

\* Emit that stores the cache entry before it writes the optimized font
Emit_StoresFirst(f, c, g, t, o, originalMeta, family, subsetBuffer, fault, ev) ==
  LET outputFilename == OutputFilename(o, originalMeta, subsetBuffer)
      outputPath == JoinPath(o.outputDir, outputFilename)
      useCache   == Opt(o, "cache", TRUE)
      planned    == writeFileBuffer(f, outputPath, subsetBuffer)
      result     == BuildResult(planned, o, originalMeta, family, outputFilename)
      g2 == IF useCache THEN getGlobalCache(g, o) ELSE g
      c2 == IF useCache
            THEN FontCache_set(c, f, g2, o.inputPath, result, t, fault)
            ELSE c
      ev1 == IF useCache THEN Append(ev, "cache.set") ELSE ev
      ev2 == Append(ev1, "write")
      ev3 == Append(ev2, "stat.output")
  IN
  IF fault = "write"
  THEN Thrown(SystemError("writeFile"), f, c2, g2, ev2, <<SystemError("writeFile")>>)
  ELSE IF fault = "stat.output"
  THEN Thrown(SystemError("stat"), planned, c2, g2, ev3, <<SystemError("stat")>>)
  ELSE Returned(result, planned, c2, g2, ev3)

\* Emit whose cache store lets a failed write of the entry escape
Emit_SetThrows(f, c, g, t, o, originalMeta, family, subsetBuffer, fault, ev) ==
  LET outputFilename == OutputFilename(o, originalMeta, subsetBuffer)
      outputPath == JoinPath(o.outputDir, outputFilename)
      useCache   == Opt(o, "cache", TRUE)
      ev1 == Append(ev, "write")
      ev2 == Append(ev1, "stat.output")
      ev3 == Append(ev2, "cache.set")
  IN
  IF fault = "write"
  THEN Thrown(SystemError("writeFile"), f, c, g, ev1, <<SystemError("writeFile")>>)
  ELSE
  LET f2 == writeFileBuffer(f, outputPath, subsetBuffer) IN
  IF fault = "stat.output"
  THEN Thrown(SystemError("stat"), f2, c, g, ev2, <<SystemError("stat")>>)
  ELSE
  LET result == BuildResult(f2, o, originalMeta, family, outputFilename)
      g2 == IF useCache THEN getGlobalCache(g, o) ELSE g
  IN IF useCache /\ fault \in {"mkdir", "writeFile"}
     THEN Thrown(SystemError(fault), f2, c, g2, ev3, <<SystemError(fault)>>)
     ELSE IF useCache
     THEN Returned(result, f2,
                   FontCache_set(c, f2, g2, o.inputPath, result, t, fault),
                   g2, ev3)
     ELSE Returned(result, f2, c, g2, ev2)

\* lines 189-235: write the optimized font, build the result, store it
Emit(f, c, g, t, o, originalMeta, family, subsetBuffer, fault, ev) ==
  LET outputFilename == OutputFilename(o, originalMeta, subsetBuffer)
      outputPath == JoinPath(o.outputDir, outputFilename)
      useCache   == Opt(o, "cache", TRUE)
      ev1 == Append(ev, "write")
      ev2 == Append(ev1, "stat.output")
      ev3 == Append(ev2, "cache.set")
  IN
  IF fault = "write"
  THEN Thrown(SystemError("writeFile"), f, c, g, ev1, <<SystemError("writeFile")>>)
  ELSE
  LET f2 == writeFileBuffer(f, outputPath, subsetBuffer) IN
  IF fault = "stat.output"
  THEN Thrown(SystemError("stat"), f2, c, g, ev2, <<SystemError("stat")>>)
  ELSE
  LET result == BuildResult(f2, o, originalMeta, family, outputFilename)
      g2 == IF useCache THEN getGlobalCache(g, o) ELSE g
  IN IF useCache
     THEN Returned(result, f2,
                   FontCache_set(c, f2, g2, o.inputPath, result, t, fault),
                   g2, ev3)
     ELSE Returned(result, f2, c, g2, ev2)

\* lines 133-235, the body of the try block
TryBody(f, c, g, t, o, engine, fault, ev0) ==
  LET inputPath == o.inputPath
      subsets   == Opt(o, "subsets", ArrayOf(DEFAULT_SUBSETS)).items
      format    == Opt(o, "format", "woff2")
      ev1 == Append(ev0, "stat.input")
      ev2 == Append(ev1, "read")
      ev3 == Append(ev2, "engine")
  IN
  IF fault = "stat.input" \/ ~Exists(f, inputPath)
  THEN Thrown(SystemError("stat"), f, c, g, ev1, <<SystemError("stat")>>)
  ELSE
  LET originalMeta == getFontMetadata(f, inputPath)
      family == IF Has(o, "fontFamily") /\ o.fontFamily # <<>>
                THEN o.fontFamily ELSE inputPath.stem
  IN
  IF fault = "read" \/ ~IsFile(f, inputPath)
  THEN Thrown(SystemError("readFile"), f, c, g, ev2, <<SystemError("readFile")>>)
  ELSE
  LET fontBuffer == Bytes(f, inputPath)
      text == getSubsetCharacters(subsets)
      targetFormat == IF format = "ttf" THEN "truetype" ELSE format
      subsetBuffer == IF engine = "empty" THEN <<>>
                      ELSE subsetFont(fontBuffer, text, targetFormat)
      emptyFile  == FontOptimizationError(
                      "Font file is empty or could not be read", inputPath, <<>>)
      noChars    == FontOptimizationError(
                      "No characters to subset", inputPath, <<>>)
      subsetFail == FontOptimizationError(
                      "Failed to subset font", inputPath,
                      <<SystemError("subsetFont")>>)
      emptyOut   == FontOptimizationError(
                      "Font subsetting produced empty result", inputPath, <<>>)
  IN
  IF Len(fontBuffer) = 0
  THEN Thrown(emptyFile, f, c, g, ev2, <<emptyFile>>)
  ELSE IF TextLength(text) = 0
  THEN Thrown(noChars, f, c, g, ev2, <<noChars>>)
  ELSE IF engine = "throw"
  THEN Thrown(subsetFail, f, c, g, ev3, <<SystemError("subsetFont")>>)
  ELSE IF Len(subsetBuffer) = 0
  THEN Thrown(emptyOut, f, c, g, ev3, <<emptyOut>>)
  ELSE Emit(f, c, g, t, o, originalMeta, family, subsetBuffer, fault, ev3)

\* lines 236-248, the catch of the try block: b is what the body did
OuterCatch(b, inputPath) ==
  IF b.thrown = <<>>
  THEN Outcome(b.result, b.fs, b.cache, b.globalCache, b.events, <<>>)
  ELSE IF b.thrown[1].name = "FontOptimizationError"
  THEN Outcome(Raised(b.thrown[1]), b.fs, b.cache, b.globalCache, b.events,
               b.origin)
  ELSE Outcome(Raised(FontOptimizationError("Font optimization failed",
                                            inputPath, b.thrown)),
               b.fs, b.cache, b.globalCache, b.events, b.origin)

ValidationKinds == {"ValidationError", "UnsupportedFormatError", "InvalidFontError"}

\* lines 90-92: <<>> when both validations return, <<error>> otherwise
RunValidation(f, o, fault) ==
  IF validateOptimizationOptions(f, o) # NoError
  THEN validateOptimizationOptions(f, o)
  ELSE validateFontFile(f, o.inputPath, fault = "validate.read")

\* ValidationCatch that wraps every validation error
ValidationCatch_WrapsAll(v, f, c, g, o) ==
  Outcome(Raised(FontOptimizationError("Validation failed",
                                       IF Has(o, "inputPath") THEN o.inputPath
                                       ELSE EmptyPath, v)),
          f, c, g, <<"validate">>, v)

\* ValidationCatch that looks the input up in the cache before it gives up
ValidationCatch_LooksUp(v, f, c, g, o) ==
  IF Has(o, "inputPath") /\ Opt(o, "cache", TRUE)
  THEN LET g1 == getGlobalCache(g, o)
           looked == FontCache_get(c, f, g1, o.inputPath, "none")
       IN IF looked.ret # NullResult
          THEN Outcome(looked.ret, f, looked.cache, g1,
                       <<"validate", "cache.get">>, <<>>)
          ELSE Outcome(Raised(v[1]), f, looked.cache, g1,
                       <<"validate", "cache.get">>, v)
  ELSE Outcome(Raised(v[1]), f, c, g, <<"validate">>, v)

\* lines 93-107: the catch around the validation; v is <<error>>
ValidationCatch(v, f, c, g, o) ==
  IF v[1].name \in ValidationKinds
  THEN Outcome(Raised(v[1]), f, c, g, <<"validate">>, v)
  ELSE Outcome(Raised(FontOptimizationError("Validation failed",
                                            o.inputPath, v)),
               f, c, g, <<"validate">>, v)

\* CacheLookup that takes a cached result only if it has the requested weight
CacheLookup_ChecksWeight(f, c, g1, o, fault) ==
  IF Opt(o, "cache", TRUE)
  THEN LET looked == FontCache_get(c, f, g1, o.inputPath, fault)
       IN IF looked.ret # NullResult
             /\ looked.ret.fontWeight # Opt(o, "fontWeight", 400)
          THEN [ret |-> NullResult, cache |-> looked.cache]
          ELSE looked
  ELSE [ret |-> NullResult, cache |-> c]

\* CacheLookup that looks the input up whatever the cache flag says
CacheLookup_IgnoresFlag(f, c, g1, o, fault) ==
  FontCache_get(c, f, g1, o.inputPath, fault)

\* lines 123-131: the cache lookup (a miss when caching is off)
CacheLookup(f, c, g1, o, fault) ==
  IF Opt(o, "cache", TRUE)
  THEN FontCache_get(c, f, g1, o.inputPath, fault)
  ELSE [ret |-> NullResult, cache |-> c]

\* AfterLookup that stores a result again when it came from the cache
AfterLookup_StoresHit(looked, f, g1, t, o, engine, fault, ev1) ==
  IF looked.ret # NullResult
  THEN Outcome(looked.ret, f,
               FontCache_set(looked.cache, f, g1, o.inputPath, looked.ret, t,
                             fault),
               g1, Append(ev1, "cache.set"), <<>>)
  ELSE OuterCatch(TryBody(f, looked.cache, g1, t, o, engine, fault, ev1),
                  o.inputPath)

\* lines 109-248: what follows a successful validation
AfterLookup(looked, f, g1, t, o, engine, fault, ev1) ==
  IF looked.ret # NullResult
  THEN Outcome(looked.ret, f, looked.cache, g1, ev1, <<>>)
  ELSE OuterCatch(TryBody(f, looked.cache, g1, t, o, engine, fault, ev1),
                  o.inputPath)

AfterValidation(f, c, g, t, o, engine, fault) ==
  LET useCache == Opt(o, "cache", TRUE)
      g1 == IF useCache THEN getGlobalCache(g, o) ELSE g
  IN AfterLookup(CacheLookup(f, c, g1, o, fault), f, g1, t, o, engine, fault,
                 IF useCache THEN <<"validate", "cache.get">>
                 ELSE <<"validate">>)

\* optimizeFont
optimizeFont(f, c, g, t, o, engine, fault) ==
  IF RunValidation(f, o, fault) # NoError
  THEN ValidationCatch(RunValidation(f, o, fault), f, c, g, o)
  ELSE AfterValidation(f, c, g, t, o, engine, fault)

----------------------------------------------------------------------------
(* optimizer.ts: optimizeFonts                                             *)

\* { inputPath, outputDir, ...options }: the later fields win
Spread(inputPath, outputDir, options) ==
  options @@ [inputPath |-> inputPath, outputDir |-> outputDir]

RECURSIVE optimizeFontsFrom_StopsAtFailure(_, _, _, _, _, _, _, _, _, _, _)
\* the loop without the try/catch around each call: the first failure ends it
optimizeFontsFrom_StopsAtFailure(i, inputPaths, outputDir, options, choices, t, f, c, g, results, calls) ==
  IF i > Len(inputPaths)
  THEN [results |-> results, calls |-> calls, fs |-> f, cache |-> c,
        globalCache |-> g]
  ELSE LET r == optimizeFont(f, c, g, t,
                             options @@ [inputPath |-> inputPaths[i],
                                         outputDir |-> outputDir],
                             choices[i], "none")
       IN IF r.outcome.kind # "result"
          THEN [results |-> results, calls |-> Append(calls, r.outcome),
                fs |-> r.fs, cache |-> r.cache, globalCache |-> r.globalCache]
          ELSE optimizeFontsFrom_StopsAtFailure(
                 i + 1, inputPaths, outputDir, options, choices, t,
                 r.fs, r.cache, r.globalCache,
                 Append(results, r.outcome), Append(calls, r.outcome))

RECURSIVE optimizeFontsFrom(_, _, _, _, _, _, _, _, _, _, _)
\* the for loop from input i on; calls lists what each optimizeFont call did
optimizeFontsFrom(i, inputPaths, outputDir, options, choices, t, f, c, g, results, calls) ==
  IF i > Len(inputPaths)
  THEN [results |-> results, calls |-> calls, fs |-> f, cache |-> c,
        globalCache |-> g]
  ELSE LET r == optimizeFont(f, c, g, t,
                             Spread(inputPaths[i], outputDir, options),
                             choices[i], "none")
       IN optimizeFontsFrom(i + 1, inputPaths, outputDir, options, choices, t,
                            r.fs, r.cache, r.globalCache,
                            IF r.outcome.kind = "result"
                            THEN Append(results, r.outcome) ELSE results,
                            Append(calls, r.outcome))

optimizeFonts(inputPaths, outputDir, options, choices, t, f, c, g) ==
  optimizeFontsFrom(1, inputPaths, outputDir, options, choices, t,
                    f, c, g, <<>>, <<>>)

\* optimizeFonts, one await at a time.  The position of a call of
\* optimizeFonts in progress: started lists the inputs whose optimizeFont
\* has been called, inFlight those whose call has not settled yet, settled
\* those whose call has returned or thrown
NoBatch ==
  [pc |-> "idle", inputPaths |-> <<>>, outputDir |-> "", options |-> <<>>,
   started |-> <<>>, inFlight |-> {}, settled |-> <<>>]

\* the loop with the calls not awaited: the next input is started while
\* earlier calls are still running
Startable_NoAwait(b) ==
  IF b.pc = "loop" /\ Len(b.started) < Len(b.inputPaths)
  THEN {Len(b.started) + 1} ELSE {}

\* for (const inputPath of inputPaths) { ... await optimizeFont(...) ... }:
\* the input whose optimizeFont the loop can call now
Startable(b) ==
  IF b.pc = "loop" /\ b.inFlight = {} /\ Len(b.started) < Len(b.inputPaths)
  THEN {Len(b.started) + 1} ELSE {}

\* the loop has gone through the list and nothing is awaited
Exhausted(b) ==
  /\ b.pc = "loop"
  /\ b.inFlight = {}
  /\ Len(b.started) = Len(b.inputPaths)

----------------------------------------------------------------------------
(* optimizer.ts: generateOptimizedCSS                                      *)

\* generateCSSFile (utils/css): the stylesheet made of a header comment and
\* one @font-face fragment per entry of fontFaces, in order
generateCSSFile(fontFaces, comments) ==
  [comments |-> comments,
   blocks |-> [i \in DOMAIN fontFaces |-> generateFontFace(fontFaces[i])]]

RECURSIVE SumOf(_, _)
\* results.reduce((sum, r) => sum + r[which].size, 0)
SumOf(results, which) ==
  IF results = <<>> THEN 0
  ELSE Head(results)[which].size + SumOf(Tail(results), which)

\* calculateAverageReduction
calculateAverageReduction(results) ==
  calculateReduction(SumOf(results, "original"), SumOf(results, "optimized"))

\* generateOptimizedCSS: the file system after the stylesheet is written
generateOptimizedCSS(f, results, outputPath) ==
  LET fontFaces == [i \in DOMAIN results |->
                      [fontFamily |-> results[i].fontFamily,
                       fontPath |-> <<"./", basename(results[i].optimized.path)>>,
                       fontWeight |-> results[i].fontWeight,
                       fontDisplay |-> "swap"]]
      comments == [total |-> Len(results),
                   average |-> calculateAverageReduction(results)]
  IN writeFileBuffer(f, outputPath, <<generateCSSFile(fontFaces, comments)>>)

----------------------------------------------------------------------------
(* optimizer.ts: parseFontWeight and parseFontStyle.  A filename is the    *)
(* sequence of its characters.                                             *)

\* String.prototype.toLowerCase, character by character
LowerOf ==
  [A |-> "a", B |-> "b", C |-> "c", D |-> "d", E |-> "e", F |-> "f",
   G |-> "g", H |-> "h", I |-> "i", J |-> "j", K |-> "k", L |-> "l",
   M |-> "m", N |-> "n", O |-> "o", P |-> "p", Q |-> "q", R |-> "r",
   S |-> "s", T |-> "t", U |-> "u", V |-> "v", W |-> "w", X |-> "x",
   Y |-> "y", Z |-> "z"]

toLowerCase(s) ==
  [i \in DOMAIN s |-> IF s[i] \in DOMAIN LowerOf THEN LowerOf[s[i]] ELSE s[i]]

\* String.prototype.includes
includes(s, key) ==
  \E i \in 1 .. (Len(s) - Len(key) + 1) : SubSeq(s, i, i + Len(key) - 1) = key

\* weightMap with the longer keys before the keys they contain
weightMap_LongestFirst ==
  << << <<"t", "h", "i", "n">>, 100 >>,
    << <<"e", "x", "t", "r", "a", "l", "i", "g", "h", "t">>, 200 >>,
    << <<"u", "l", "t", "r", "a", "l", "i", "g", "h", "t">>, 200 >>,
    << <<"l", "i", "g", "h", "t">>, 300 >>,
    << <<"r", "e", "g", "u", "l", "a", "r">>, 400 >>,
    << <<"n", "o", "r", "m", "a", "l">>, 400 >>,
    << <<"m", "e", "d", "i", "u", "m">>, 500 >>,
    << <<"s", "e", "m", "i", "b", "o", "l", "d">>, 600 >>,
    << <<"d", "e", "m", "i", "b", "o", "l", "d">>, 600 >>,
    << <<"e", "x", "t", "r", "a", "b", "o", "l", "d">>, 800 >>,
    << <<"u", "l", "t", "r", "a", "b", "o", "l", "d">>, 800 >>,
    << <<"b", "o", "l", "d">>, 700 >>,
    << <<"b", "l", "a", "c", "k">>, 900 >>,
    << <<"h", "e", "a", "v", "y">>, 900 >> >>

\* weightMap, in the order of Object.entries
weightMap ==
  << << <<"t", "h", "i", "n">>, 100 >>,
    << <<"e", "x", "t", "r", "a", "l", "i", "g", "h", "t">>, 200 >>,
    << <<"u", "l", "t", "r", "a", "l", "i", "g", "h", "t">>, 200 >>,
    << <<"l", "i", "g", "h", "t">>, 300 >>,
    << <<"r", "e", "g", "u", "l", "a", "r">>, 400 >>,
    << <<"n", "o", "r", "m", "a", "l">>, 400 >>,
    << <<"m", "e", "d", "i", "u", "m">>, 500 >>,
    << <<"s", "e", "m", "i", "b", "o", "l", "d">>, 600 >>,
    << <<"d", "e", "m", "i", "b", "o", "l", "d">>, 600 >>,
    << <<"b", "o", "l", "d">>, 700 >>,
    << <<"e", "x", "t", "r", "a", "b", "o", "l", "d">>, 800 >>,
    << <<"u", "l", "t", "r", "a", "b", "o", "l", "d">>, 800 >>,
    << <<"b", "l", "a", "c", "k">>, 900 >>,
    << <<"h", "e", "a", "v", "y">>, 900 >> >>

\* parseFontWeight that is case-sensitive
parseFontWeight_CaseSensitive(filename) ==
  LET found == {i \in DOMAIN weightMap : includes(filename, weightMap[i][1])}
  IN IF found = {} THEN 400
     ELSE weightMap[CHOOSE i \in found : \A j \in found : i <= j][2]

\* parseFontWeight: the weight of the first key of weightMap the lower-cased
\* filename includes, 400 if it includes none
parseFontWeight(filename) ==
  LET lower == toLowerCase(filename)
      found == {i \in DOMAIN weightMap : includes(lower, weightMap[i][1])}
  IN IF found = {} THEN 400
     ELSE weightMap[CHOOSE i \in found : \A j \in found : i <= j][2]

\* parseFontStyle
parseFontStyle(filename) ==
  LET lower == toLowerCase(filename)
  IN IF includes(lower, <<"i", "t", "a", "l", "i", "c">>) \/ includes(lower, <<"o", "b", "l", "i", "q", "u", "e">>)
     THEN "italic" ELSE "normal"

----------------------------------------------------------------------------
(* The inputs the operations are called with                               *)

Base(p) == [inputPath |-> p, outputDir |-> "out"]

AltOptions ==
  [outputDir |-> "out2", fontFamily |-> <<"Vazir">>, fontWeight |-> 700,
   fontStyle |-> "italic", format |-> "ttf", fontDisplay |-> "block",
   subsets |-> ArrayOf(<<"latin", "numbers">>), useHash |-> FALSE]

ValidRequests ==
  {Base(PathA), Base(PathA2),
   AltOptions @@ Base(PathA),
   [cache |-> FALSE] @@ Base(PathA),
   [subsets |-> ArrayOf(<<>>)] @@ Base(PathA),
   [subsets |-> ArrayOf(<<"klingon">>)] @@ Base(PathA)}

InvalidRequests ==
  {[outputDir |-> "out"], Base(EmptyPath), Base(PathGone), Base(PathTxt),
   Base(PathDir), Base(PathEmpty), AltOptions @@ Base(PathEmpty),
   Base(PathBad),
   [inputPath |-> PathA], [outputDir |-> ""] @@ Base(PathA),
   [format |-> "svg"] @@ Base(PathA),
   [fontWeight |-> 1000] @@ Base(PathA),
   [fontWeight |-> 50] @@ Base(PathB),
   [fontStyle |-> "oblique"] @@ Base(PathA),
   [fontDisplay |-> "bogus"] @@ Base(PathA),
   [subsets |-> NotAnArray] @@ Base(PathA)}

Requests == ValidRequests \cup InvalidRequests

Faults == {"validate.read", "stat.input", "read", "write", "stat.output",
           "readFile", "mkdir", "writeFile"}

\* the directory of the FontCache instance that is used directly
DirectDir == "c1"

CachePaths == {PathA, PathA2, PathB}

OutTest  == MkPath("out", <<"test">>, ".woff2")
OutOther == MkPath("out", <<"other">>, ".woff2")

MockMeta(p, size, fmt) ==
  [path |-> p, name |-> basename(p), extension |-> extname(p),
   size |-> size, sizeFormatted |-> fmt]

\* results handed to set directly (the first is the one of the cache tests)
MockResults ==
  {[kind |-> "result",
    original |-> MockMeta(PathA, 1000, [hundredths |-> 100, unit |-> "KB"]),
    optimized |-> MockMeta(OutTest, 300, [hundredths |-> 30000, unit |-> "B"]),
    reduction |-> [finite |-> TRUE, tenths |-> 700],
    css |-> <<"@font-face", [fontFamily |-> <<"Test">>]>>,
    fontFamily |-> <<"Test">>,
    fontWeight |-> 400],
   [kind |-> "result",
    original |-> MockMeta(PathB, 8, [hundredths |-> 800, unit |-> "B"]),
    optimized |-> MockMeta(OutOther, 6, [hundredths |-> 600, unit |-> "B"]),
    reduction |-> [finite |-> TRUE, tenths |-> 250],
    css |-> <<"@font-face", [fontFamily |-> <<"Other">>]>>,
    fontFamily |-> <<"Other">>,
    fontWeight |-> 700]}

InputContents == {TtfA, TtfB}

BatchPaths == {PathA, PathB, PathBad}

RECURSIVE SeqsUpTo(_, _)
SeqsUpTo(S, n) ==
  IF n = 0 THEN {<<>>}
  ELSE LET shorter == SeqsUpTo(S, n - 1)
       IN shorter \cup {Append(s, x) : s \in {q \in shorter : Len(q) = n - 1}, x \in S}

BatchInputs == SeqsUpTo(BatchPaths, MaxBatch)

\* the options shared by the inputs of a batch
BatchOptions == [fontWeight |-> 700]

\* the filenames parseFontWeight and parseFontStyle are called with: a
\* family name, up to two words, an extension, and some in upper case
NameWords ==
  {<<>>, <<"t", "h", "i", "n">>,
   <<"e", "x", "t", "r", "a", "l", "i", "g", "h", "t">>,
   <<"l", "i", "g", "h", "t">>,
   <<"r", "e", "g", "u", "l", "a", "r">>,
   <<"m", "e", "d", "i", "u", "m">>,
   <<"s", "e", "m", "i", "b", "o", "l", "d">>,
   <<"b", "o", "l", "d">>,
   <<"e", "x", "t", "r", "a", "b", "o", "l", "d">>,
   <<"b", "l", "a", "c", "k">>,
   <<"i", "t", "a", "l", "i", "c">>,
   <<"o", "b", "l", "i", "q", "u", "e">>,
   <<"B", "o", "l", "d">>,
   <<"L", "I", "G", "H", "T">>,
   <<"I", "t", "a", "l", "i", "c">>}

FileNames ==
  {<<"v", "a", "z", "i", "r">> \o a \o <<"-">> \o b \o <<".", "t", "t", "f">> : a \in NameWords, b \in NameWords}
  \cup {<<"v", "a", "z", "i", "r", "-", "b", "o", "l", "d", ".", "t", "t", "f">>, <<"i", "r", "a", "n", "s", "a", "n", "s", "-", "l", "i", "g", "h", "t", ".", "t", "t", "f">>, <<"S", "a", "h", "e", "l", "-", "B", "l", "a", "c", "k", "-", "I", "t", "a", "l", "i", "c", ".", "w", "o", "f", "f", "2">>, <<"I", "R", "A", "N", "S", "A", "N", "S", "-", "U", "L", "T", "R", "A", "B", "O", "L", "D", ".", "T", "T", "F">>, <<"s", "a", "h", "e", "l", ".", "o", "t", "f">>}

\* the options of the batches whose results make a stylesheet, and where
\* the stylesheet goes
CssOptions ==
  {[cache |-> FALSE],
   [cache |-> FALSE, fontWeight |-> 700, fontStyle |-> "italic"],
   [cache |-> FALSE, fontFamily |-> <<"Vazir">>, fontDisplay |-> "block"]}

CssInputs == SeqsUpTo({PathA, PathB, PathBad}, 2)

CssPath == MkPath("out", <<"fonts">>, ".css")

\* the cacheDir arguments of getGlobalCache: none, or a directory
GlobalDirs == {<<>>, <<DirectDir>>, <<".other">>}

\* the file sizes calculateReduction is called with
Sizes == (0 .. 12) \cup {250, 500, 750, 997, 1000, 1001}

\* requests that differ in the weight, the subsets and the format only
Weights == {0, 99, 100, 400, 900, 901, 1000}

WeightRequests ==
  {[fontWeight |-> w] @@ b :
     w \in Weights,
     b \in {Base(PathA),
            [cache |-> FALSE, useHash |-> FALSE, fontStyle |-> "italic"]
              @@ Base(PathB)}}

SubsetRequests ==
  {[subsets |-> ArrayOf(names), cache |-> FALSE, useHash |-> FALSE]
     @@ Base(PathA) :
     names \in {<<>>, <<"klingon">>, <<"latin", "klingon">>, <<"farsi">>,
                DEFAULT_SUBSETS}}

FormatRequests ==
  {[format |-> format, cache |-> FALSE, useHash |-> FALSE] @@ Base(PathA) :
     format \in {"woff2", "woff", "ttf", "svg"}}

----------------------------------------------------------------------------
(* State machine                                                           *)

NoOp == [op |-> "none"]

\* what a lookup of inputPath in directory dir is about to see
Snapshot(c, f, dir, inputPath) ==
  [dir |-> dir,
   entry |-> IF HasEntry(c, dir, inputPath)
             THEN <<EntryOf(c, dir, inputPath)>> ELSE <<>>,
   input |-> IF Exists(f, inputPath) THEN <<f[Resolve(inputPath)]>> ELSE <<>>,
   rest |-> IF dir \in DOMAIN c THEN Del(c[dir], getCacheKey(inputPath))
            ELSE EmptyMap,
   artifact |-> /\ HasEntry(c, dir, inputPath)
                /\ Parseable(EntryOf(c, dir, inputPath))
                /\ fileExists(f, EntryOf(c, dir, inputPath).entry.result.outputPath)]

\* the operation before a get is kept when it is a set on the same instance
\* for the same input file
KeepSet(dir, inputPath) ==
  IF last.op = "set" /\ last.dir = dir
     /\ Resolve(last.path) = Resolve(inputPath)
  THEN last ELSE NoOp

\* the calls that can be in flight together
Procs == {"first", "second"}

\* the input paths of the calls in flight
ConcPaths == {PathA, PathB}

\* the operation before an optimizeFont is kept when it is an optimizeFont
\* with the same options
KeepOptimize(o) ==
  IF last.op = "optimizeFont" /\ last.options = o THEN last ELSE NoOp

Init ==
  /\ fs = [p \in {Resolve(PathA), Resolve(PathB), Resolve(PathTxt),
                  Resolve(PathEmpty), Resolve(PathBad), Resolve(PathDir)} |->
             CASE p = Resolve(PathA)     -> FileNode(TtfA)
               [] p = Resolve(PathB)     -> FileNode(OttoB)
               [] p = Resolve(PathTxt)   -> FileNode(<<104, 105>>)
               [] p = Resolve(PathEmpty) -> FileNode(<<>>)
               [] p = Resolve(PathBad)   -> FileNode(BadSig)
               [] OTHER                  -> DirNode]
  /\ cache = EmptyMap
  /\ globalCache = NoInstance
  /\ constructed = 0
  /\ now = 0
  /\ last = NoOp
  /\ prev = NoOp
  /\ procs = [i \in Procs |-> Idle]
  /\ batch = NoBatch
  /\ alone = [store |-> [p \in {Resolve(q) : q \in ConcPaths} |-> EmptyMap],
              procs |-> [i \in Procs |-> Idle]]

\* optimizeFont(options)
OptimizeOne(o, engine, fault) ==
  \E r \in {optimizeFont(fs, cache, globalCache, now, o, engine, fault)} :
  LET clean == optimizeFont(fs, cache, globalCache, now, o, engine, "none")
      path  == IF Has(o, "inputPath") THEN o.inputPath ELSE EmptyPath
      dir   == IF Opt(o, "cache", TRUE) THEN getGlobalCache(globalCache, o)
               ELSE globalCache
  IN /\ fs' = r.fs
     /\ cache' = r.cache
     /\ globalCache' = r.globalCache
     /\ constructed' = constructed + Constructions(globalCache, r.globalCache)
     /\ last' = [op |-> "optimizeFont", path |-> path, options |-> o,
                 fault |-> IF fault = "none" \/ r = clean THEN "none" ELSE fault,
                 outcome |-> r.outcome, events |-> r.events,
                 origin |-> r.origin,
                 pre |-> Snapshot(cache, fs, dir, path),
                 wrote |-> r.fs # fs, stored |-> r.cache # cache]
     /\ prev' = KeepOptimize(o)
     /\ UNCHANGED <<now, procs, alone, batch>>

\* new FontCache(dir).get(inputPath)
CacheGet(dir, inputPath, fault) ==
  LET r     == FontCache_get(cache, fs, dir, inputPath, fault)
      clean == FontCache_get(cache, fs, dir, inputPath, "none")
  IN /\ cache' = r.cache
     /\ last' = [op |-> "get", path |-> inputPath, dir |-> dir,
                 fault |-> IF fault = "none" \/ r = clean THEN "none" ELSE fault,
                 ret |-> r.ret,
                 pre |-> Snapshot(cache, fs, dir, inputPath)]
     /\ prev' = KeepSet(dir, inputPath)
     /\ UNCHANGED <<fs, globalCache, constructed, now, procs, alone, batch>>

\* new FontCache(dir).set(inputPath, result)
CacheSet(dir, inputPath, result, fault) ==
  LET c2    == FontCache_set(cache, fs, dir, inputPath, result, now, fault)
      clean == FontCache_set(cache, fs, dir, inputPath, result, now, "none")
  IN /\ cache' = c2
     /\ last' = [op |-> "set", path |-> inputPath, dir |-> dir,
                 fault |-> IF fault = "none" \/ c2 = clean THEN "none" ELSE fault,
                 result |-> result,
                 readable |-> IsFile(fs, inputPath),
                 root |-> dir \in DOMAIN cache,
                 pre |-> Snapshot(cache, fs, dir, inputPath),
                 stored |-> FilesOf(c2, dir) # FilesOf(cache, dir),
                 restKept |-> Del(FilesOf(c2, dir), getCacheKey(inputPath))
                                = Del(FilesOf(cache, dir), getCacheKey(inputPath))]
     /\ prev' = NoOp
     /\ UNCHANGED <<fs, globalCache, constructed, now, procs, alone, batch>>

\* new FontCache(dir).delete(inputPath)
CacheDelete(dir, inputPath, fault) ==
  LET c2    == FontCache_delete(cache, dir, inputPath, fault)
      clean == FontCache_delete(cache, dir, inputPath, "none")
  IN /\ cache' = c2
     /\ last' = [op |-> "delete", path |-> inputPath, dir |-> dir,
                 fault |-> IF fault = "none" \/ c2 = clean THEN "none" ELSE fault,
                 pre |-> Snapshot(cache, fs, dir, inputPath),
                 stored |-> c2 # cache]
     /\ prev' = IF last.op = "delete" /\ last.dir = dir
                   /\ Resolve(last.path) = Resolve(inputPath)
                THEN last ELSE NoOp
     /\ UNCHANGED <<fs, globalCache, constructed, now, procs, alone, batch>>

\* optimizeFonts(inputPaths, outputDir, options)
OptimizeMany(inputPaths, outputDir, options, choices) ==
  LET r == optimizeFonts(inputPaths, outputDir, options, choices, now,
                         fs, cache, globalCache)
  IN /\ fs' = r.fs
     /\ cache' = r.cache
     /\ globalCache' = r.globalCache
     /\ constructed' = constructed + Constructions(globalCache, r.globalCache)
     /\ last' = [op |-> "optimizeFonts", inputPaths |-> inputPaths,
                 options |-> options, results |-> r.results,
                 calls |-> r.calls]
     /\ prev' = NoOp
     /\ UNCHANGED <<now, procs, alone, batch>>

\* optimizeFonts(inputPaths, outputDir, options) is called; results = []
LoopBegin(inputPaths, outputDir, options) ==
  /\ batch.pc \in {"idle", "done"}
  /\ batch' = [NoBatch EXCEPT !.pc = "loop", !.inputPaths = inputPaths,
                              !.outputDir = outputDir, !.options = options]
  /\ last' = [op |-> "loop.begin", results |-> <<>>, calls |-> <<>>]
  /\ prev' = NoOp
  /\ UNCHANGED <<fs, cache, globalCache, constructed, now, procs, alone>>

\* the position of the loop when it calls optimizeFont for its next input
CallStep ==
  \E i \in Startable(batch) :
    batch' = [batch EXCEPT !.started = Append(@, i), !.inFlight = @ \cup {i}]

\* the position of the loop when the optimizeFont of input i settles
SettleStep(i) ==
  /\ i \in batch.inFlight
  /\ batch' = [batch EXCEPT !.inFlight = @ \ {i}, !.settled = Append(@, i)]

\* the position of the loop when it returns
ReturnStep ==
  /\ Exhausted(batch)
  /\ batch' = [batch EXCEPT !.pc = "done"]

\* the loop calls optimizeFont for its next input
LoopCall ==
  /\ CallStep
  /\ last' = [last EXCEPT !.op = "loop.call"]
  /\ prev' = NoOp
  /\ UNCHANGED <<fs, cache, globalCache, constructed, now, procs, alone>>

\* the optimizeFont of input i returns or throws; the result is pushed, the
\* error is logged.  `last` carries the results array and what each call did
LoopSettle(i, engine) ==
  /\ SettleStep(i)
  /\ LET r == optimizeFont(fs, cache, globalCache, now,
                           Spread(batch.inputPaths[i], batch.outputDir,
                                  batch.options),
                           engine, "none")
     IN /\ fs' = r.fs
        /\ cache' = r.cache
        /\ globalCache' = r.globalCache
        /\ constructed' = constructed + Constructions(globalCache, r.globalCache)
        /\ last' = [op |-> "loop.settle",
                    results |-> IF r.outcome.kind = "result"
                                THEN Append(last.results, r.outcome)
                                ELSE last.results,
                    calls |-> Append(last.calls, r.outcome)]
  /\ prev' = NoOp
  /\ UNCHANGED <<now, procs, alone>>

\* return results
LoopReturn ==
  /\ ReturnStep
  /\ last' = [last EXCEPT !.op = "loop.return"]
  /\ prev' = NoOp
  /\ UNCHANGED <<fs, cache, globalCache, constructed, now, procs, alone>>

\* the fault of a call as far as it made a difference
Effective(fault, r, clean) == IF fault = "none" \/ r = clean THEN "none" ELSE fault

\* new FontCache(dir).clear()
CacheClear(dir, fault, failing) ==
  LET c2    == FontCache_clear(cache, dir, fault, failing)
      clean == FontCache_clear(cache, dir, "none", {})
  IN /\ cache' = c2
     /\ last' = [op |-> "clear", dir |-> dir,
                 fault |-> Effective(fault, c2, clean), failing |-> failing,
                 pre |-> FilesOf(cache, dir)]
     /\ prev' = NoOp
     /\ UNCHANGED <<fs, globalCache, constructed, now, procs, alone, batch>>

\* new FontCache(dir).getStats()
CacheGetStats(dir, fault, failing) ==
  LET r     == FontCache_getStats(cache, dir, fault, failing)
      clean == FontCache_getStats(cache, dir, "none", {})
  IN /\ last' = [op |-> "getStats", dir |-> dir,
                 fault |-> Effective(fault, r, clean), failing |-> failing,
                 ret |-> r, pre |-> FilesOf(cache, dir),
                 root |-> dir \in DOMAIN cache]
     /\ prev' = NoOp
     /\ UNCHANGED <<fs, cache, globalCache, constructed, now, procs,
                    alone, batch>>

\* new FontCache(dir).cleanOld(maxAgeMs)
CacheCleanOld(dir, maxAgeMs, fault, failing) ==
  LET r     == FontCache_cleanOld(cache, dir, maxAgeMs, now, fault, failing)
      clean == FontCache_cleanOld(cache, dir, maxAgeMs, now, "none", {})
  IN /\ cache' = r.cache
     /\ last' = [op |-> "cleanOld", dir |-> dir, maxAgeMs |-> maxAgeMs,
                 fault |-> Effective(fault, r, clean), failing |-> failing,
                 ret |-> r.ret, at |-> now, pre |-> FilesOf(cache, dir)]
     /\ prev' = NoOp
     /\ UNCHANGED <<fs, globalCache, constructed, now, procs, alone, batch>>

\* call i starts: cache.op(path[, result]) on the instance of DirectDir
ConcStart(i, op, path, result) ==
  /\ procs[i].pc = "idle"
  /\ procs' = [procs EXCEPT ![i] = Call(op, path, result)]
  /\ alone' = [alone EXCEPT !.procs[i] = Call(op, path, result)]
  /\ last' = [op |-> "conc.start"]
  /\ prev' = NoOp
  /\ UNCHANGED <<fs, cache, globalCache, constructed, now, batch>>

\* call i runs up to its next await.  `alone` runs the same call on a
\* storage that only the calls for its own input path act on
ConcStep(i) ==
  /\ procs[i].pc # "idle"
  /\ LET pr == procs[i]
         at == Resolve(pr.path)
         r  == StepProc(cache, fs, DirectDir, pr, now)
         a  == StepProc(alone.store[at], fs, DirectDir, alone.procs[i], now)
     IN /\ cache' = r.cache
        /\ procs' = [procs EXCEPT ![i] = r.proc]
        /\ alone' = [alone EXCEPT !.store[at] = a.cache, !.procs[i] = a.proc]
        /\ last' = [op |-> "conc", proc |-> i, did |-> pr.op, pc |-> pr.pc,
                    path |-> pr.path, given |-> pr.entry,
                    saw |-> IF HasEntry(cache, DirectDir, pr.path)
                            THEN <<EntryOf(cache, DirectDir, pr.path)>>
                            ELSE <<>>,
                    ret |-> r.proc.ret]
  /\ prev' = NoOp
  /\ UNCHANGED <<fs, globalCache, constructed, now, batch>>

\* calculateReduction(original, optimized)
CalculateReduction(original, optimized) ==
  /\ last' = [op |-> "calculateReduction", original |-> original,
              optimized |-> optimized,
              ret |-> calculateReduction(original, optimized)]
  /\ prev' = NoOp
  /\ UNCHANGED <<fs, cache, globalCache, constructed, now, procs,
                 alone, batch>>

\* parseFontWeight(filename) and parseFontStyle(filename), as the callers
\* pair them
ParseFontName(filename) ==
  /\ last' = [op |-> "parseFontName", filename |-> filename,
              weight |-> parseFontWeight(filename),
              style |-> parseFontStyle(filename)]
  /\ prev' = NoOp
  /\ UNCHANGED <<fs, cache, globalCache, constructed, now, procs,
                 alone, batch>>

\* generateOptimizedCSS(results, outputPath), called with the results the
\* optimizeFonts before it returned
GenerateOptimizedCSS(outputPath) ==
  /\ last.op = "optimizeFonts"
  /\ fs' = generateOptimizedCSS(fs, last.results, outputPath)
  /\ last' = [op |-> "generateOptimizedCSS", results |-> last.results,
              outputPath |-> outputPath]
  /\ prev' = NoOp
  /\ UNCHANGED <<cache, globalCache, constructed, now, procs, alone, batch>>

\* the global instance as a caller holds it: the directory it is bound to
\* and which of the instances constructed so far it is
Instance(g, n) == IF g = NoInstance THEN <<>> ELSE <<[cacheDir |-> g, id |-> n]>>

\* the operation before a call on the global instance is kept when it is one
KeepGlobal ==
  IF last.op \in {"getGlobalCache", "disableCache"} THEN last ELSE NoOp

\* getGlobalCache(cacheDir); cacheDir is <<>> when no argument is given
GetGlobalCache(cacheDir) ==
  LET o  == IF cacheDir = <<>> THEN EmptyMap ELSE [cacheDir |-> cacheDir[1]]
      g2 == getGlobalCache(globalCache, o)
      n2 == constructed + Constructions(globalCache, g2)
  IN /\ n2 <= MaxInstances
     /\ globalCache' = g2
     /\ constructed' = n2
     /\ last' = [op |-> "getGlobalCache", cacheDir |-> cacheDir,
                 before |-> Instance(globalCache, constructed),
                 ret |-> Instance(g2, n2)]
     /\ prev' = KeepGlobal
     /\ UNCHANGED <<fs, cache, now, procs, alone, batch>>

\* disableCache()
DisableCache ==
  /\ globalCache' = disableCache
  /\ last' = [op |-> "disableCache",
              before |-> Instance(globalCache, constructed)]
  /\ prev' = KeepGlobal
  /\ UNCHANGED <<fs, cache, constructed, now, procs, alone, batch>>

(* The environment: other programs and earlier runs acting on the files    *)

\* the input font is edited or put back
WriteInput(inputPath, bytes) ==
  /\ IF IsFile(fs, inputPath) THEN Bytes(fs, inputPath) # bytes ELSE TRUE
  /\ fs' = writeFileBuffer(fs, inputPath, bytes)
  /\ last' = [op |-> "writeInput", path |-> inputPath]
  /\ prev' = NoOp
  /\ UNCHANGED <<cache, globalCache, constructed, now, procs, alone, batch>>

\* an optimized artifact is put in place by the caller (as the cache tests do)
CreateArtifact(filePath) ==
  /\ ~Exists(fs, filePath)
  /\ fs' = writeFileBuffer(fs, filePath, <<116, 101, 115, 116>>)
  /\ last' = [op |-> "createArtifact", path |-> filePath]
  /\ prev' = NoOp
  /\ UNCHANGED <<cache, globalCache, constructed, now, procs, alone, batch>>

\* the input font is deleted
RemoveInput(inputPath) ==
  /\ Exists(fs, inputPath)
  /\ fs' = Del(fs, Resolve(inputPath))
  /\ last' = [op |-> "removeInput", path |-> inputPath]
  /\ prev' = NoOp
  /\ UNCHANGED <<cache, globalCache, constructed, now, procs, alone, batch>>

\* an optimized artifact is deleted or moved away
RemoveArtifact(absPath) ==
  /\ absPath \in DOMAIN fs
  /\ absPath.dir \in {AbsDir("out"), AbsDir("out2")}
  /\ fs' = Del(fs, absPath)
  /\ last' = [op |-> "removeArtifact", path |-> absPath]
  /\ prev' = NoOp
  /\ UNCHANGED <<cache, globalCache, constructed, now, procs, alone, batch>>

\* an optimized artifact is overwritten with other bytes
OverwriteArtifact(absPath, bytes) ==
  /\ absPath \in DOMAIN fs
  /\ absPath.dir \in {AbsDir("out"), AbsDir("out2")}
  /\ fs[absPath].bytes # bytes
  /\ fs' = [fs EXCEPT ![absPath] = FileNode(bytes)]
  /\ last' = [op |-> "overwriteArtifact", path |-> absPath]
  /\ prev' = NoOp
  /\ UNCHANGED <<cache, globalCache, constructed, now, procs, alone, batch>>

LegacyVersion == "0.9.0"

\* an entry left behind by a release whose cacheVersion was different
LegacyEntry(dir, inputPath, result) ==
  /\ IsFile(fs, inputPath)
  /\ ~HasEntry(cache, dir, inputPath)
  /\ cache' = LET c1 == IF dir \in DOMAIN cache THEN cache
                        ELSE Put(cache, dir, EmptyMap)
              IN [c1 EXCEPT ![dir] =
                    Put(@, getCacheKey(inputPath),
                        EntryFile(MakeEntry(fs, inputPath, result, now,
                                            LegacyVersion)))]
  /\ last' = [op |-> "legacyEntry", path |-> inputPath, dir |-> dir]
  /\ prev' = NoOp
  /\ UNCHANGED <<fs, globalCache, constructed, now, procs, alone, batch>>

\* time passes
Tick ==
  /\ now < MaxClock
  /\ now' = now + 1
  /\ last' = [op |-> "tick"]
  /\ prev' = NoOp
  /\ UNCHANGED <<fs, cache, globalCache, constructed, procs, alone, batch>>

\* an entry file is damaged (cut short by a crash or a full disk)
CorruptEntry(dir, inputPath) ==
  /\ HasEntry(cache, dir, inputPath)
  /\ Parseable(EntryOf(cache, dir, inputPath))
  /\ cache' = [cache EXCEPT ![dir][getCacheKey(inputPath)] = CorruptFile(<<123, 10>>)]
  /\ last' = [op |-> "corruptEntry", path |-> inputPath, dir |-> dir]
  /\ prev' = NoOp
  /\ UNCHANGED <<fs, globalCache, constructed, now, procs, alone, batch>>

\* another program leaves a file of its own in the cache directory
LeaveStrayFile(dir) ==
  /\ dir \in DOMAIN cache
  /\ StrayName \notin DOMAIN cache[dir]
  /\ cache' = [cache EXCEPT ![dir] = Put(@, StrayName, StrayFile)]
  /\ last' = [op |-> "strayFile", dir |-> dir]
  /\ prev' = NoOp
  /\ UNCHANGED <<fs, globalCache, constructed, now, procs, alone, batch>>

----------------------------------------------------------------------------
(* Specifications                                                          *)

\* the cache used directly
NextCache ==
  \/ \E p \in CachePaths, fault \in {"none", "readFile"} :
       CacheGet(DirectDir, p, fault)
  \/ \E p \in CachePaths, r \in MockResults, fault \in {"none", "writeFile"} :
       CacheSet(DirectDir, p, r, fault)
  \/ \E p \in CachePaths, fault \in {"none", "unlink"} :
       CacheDelete(DirectDir, p, fault)
  \/ \E p \in {PathA}, b \in InputContents : WriteInput(p, b)
  \/ RemoveInput(PathA)
  \/ \E p \in {OutTest, OutOther} : CreateArtifact(p)
  \/ \E p \in DOMAIN fs : RemoveArtifact(p)
  \/ \E p \in {PathA, PathB}, r \in MockResults : LegacyEntry(DirectDir, p, r)

SpecCache == Init /\ [][NextCache]_vars

\* the ages cleanOld is called with: none, one tick, more than the clock spans
MaxAges == {0, 1, MaxClock + 1}

MaintPaths == {PathA, PathB}

\* the sets of entry files a failing read, stat or unlink hits
FailingSets == SUBSET {getCacheKey(p) : p \in MaintPaths} \ {{}}

\* the cache used directly, with its maintenance operations
NextMaint ==
  \/ \E p \in MaintPaths, fault \in {"none", "readFile"} :
       CacheGet(DirectDir, p, fault)
  \/ \E p \in MaintPaths, r \in MockResults,
        fault \in {"none", "mkdir", "writeFile", "truncate"} :
       CacheSet(DirectDir, p, r, fault)
  \/ \E p \in MaintPaths, fault \in {"none", "unlink"} :
       CacheDelete(DirectDir, p, fault)
  \/ CacheClear(DirectDir, "none", {})
  \/ \E fault \in {"readdir", "unlink"}, failing \in FailingSets :
       CacheClear(DirectDir, fault, failing)
  \/ CacheGetStats(DirectDir, "none", {})
  \/ \E fault \in {"readdir", "stat", "readFile"}, failing \in FailingSets :
       CacheGetStats(DirectDir, fault, failing)
  \/ \E maxAgeMs \in MaxAges : CacheCleanOld(DirectDir, maxAgeMs, "none", {})
  \/ \E maxAgeMs \in MaxAges, fault \in {"readdir", "readFile", "unlink"},
        failing \in FailingSets :
       CacheCleanOld(DirectDir, maxAgeMs, fault, failing)
  \/ Tick
  \/ \E p \in MaintPaths : CorruptEntry(DirectDir, p)
  \/ CreateArtifact(OutTest)

SpecMaint == Init /\ [][NextMaint]_vars

\* the cache used directly, in a directory that other files get into
NextClear ==
  \/ \E p \in MaintPaths : CacheGet(DirectDir, p, "none")
  \/ \E p \in MaintPaths, r \in MockResults : CacheSet(DirectDir, p, r, "none")
  \/ CacheClear(DirectDir, "none", {})
  \/ \E failing \in FailingSets \cup {{StrayName}} :
       CacheClear(DirectDir, "unlink", failing)
  \/ CacheGetStats(DirectDir, "none", {})
  \/ \E maxAgeMs \in {0, 1} : CacheCleanOld(DirectDir, maxAgeMs, "none", {})
  \/ Tick
  \/ LeaveStrayFile(DirectDir)
  \/ \E p \in MaintPaths : CorruptEntry(DirectDir, p)
  \/ CreateArtifact(OutTest)

SpecClear == Init /\ [][NextClear]_vars

\* get, set and delete calls of one instance running together
NextConc ==
  \/ \E i \in Procs, p \in ConcPaths, r \in MockResults :
       ConcStart(i, "set", p, <<r>>)
  \/ \E i \in Procs, p \in ConcPaths, op \in {"get", "delete"} :
       ConcStart(i, op, p, <<>>)
  \/ \E i \in Procs : ConcStep(i)
  \/ CreateArtifact(OutTest)

SpecConc == Init /\ [][NextConc]_vars

\* the pipeline called with requests at and around the limits of validation
NextValidate ==
  \/ \E o \in WeightRequests : OptimizeOne(o, "ok", "none")
  \/ \E o \in SubsetRequests, engine \in {"ok", "throw"} :
       OptimizeOne(o, engine, "none")
  \/ \E o \in FormatRequests : OptimizeOne(o, "ok", "none")
  \/ RemoveInput(PathA)

SpecValidate == Init /\ [][NextValidate]_vars

\* the exported helpers called on their own
NextUtil ==
  \/ \E original \in Sizes, optimized \in Sizes :
       CalculateReduction(original, optimized)
  \/ \E filename \in FileNames : ParseFontName(filename)

SpecUtil == Init /\ [][NextUtil]_vars

\* a batch and the stylesheet of its results
NextCss ==
  \/ \E inputPaths \in CssInputs, options \in CssOptions :
       OptimizeMany(inputPaths, "out", options,
                    [i \in 1..Len(inputPaths) |-> "ok"])
  \/ GenerateOptimizedCSS(CssPath)

SpecCss == Init /\ [][NextCss]_vars

\* the global cache instance
NextGlobal ==
  \/ \E cacheDir \in GlobalDirs : GetGlobalCache(cacheDir)
  \/ DisableCache

SpecGlobal == Init /\ [][NextGlobal]_vars

\* requests that name a cache directory and requests that do not
SharedRequests ==
  {Base(PathA), Base(PathB),
   [cacheDir |-> DirectDir] @@ Base(PathA),
   [cacheDir |-> ".other"] @@ Base(PathB),
   [cacheDir |-> ".other", cache |-> FALSE] @@ Base(PathA)}

\* the pipeline and its callers sharing the global instance
NextShared ==
  \/ \E o \in SharedRequests :
       constructed < MaxInstances /\ OptimizeOne(o, "ok", "none")
  \/ \E cacheDir \in GlobalDirs : GetGlobalCache(cacheDir)
  \/ DisableCache

SpecShared == Init /\ [][NextShared]_vars

\* the cache used directly over a long history: every operation that
\* stores, removes or ages entries, and the files changing under it
NextHistory ==
  \/ \E p \in MaintPaths, fault \in {"none", "readFile"} :
       CacheGet(DirectDir, p, fault)
  \/ \E p \in MaintPaths, r \in MockResults : CacheSet(DirectDir, p, r, "none")
  \/ \E p \in MaintPaths : CacheDelete(DirectDir, p, "none")
  \/ CacheClear(DirectDir, "none", {})
  \/ \E maxAgeMs \in {0, 1} : CacheCleanOld(DirectDir, maxAgeMs, "none", {})
  \/ Tick
  \/ \E b \in InputContents : WriteInput(PathA, b)
  \/ RemoveInput(PathA)
  \/ CreateArtifact(OutTest)
  \/ \E p \in DOMAIN fs : RemoveArtifact(p)
  \/ \E r \in MockResults : LegacyEntry(DirectDir, PathA, r)
  \/ CorruptEntry(DirectDir, PathA)

SpecHistory == Init /\ [][NextHistory]_vars

\* the contents an artifact is overwritten with
ArtifactContents == {<<119>>, <<119, 79, 70, 50, 1, 2, 3, 4, 5>>}

\* the pipeline fills the cache of the default directory, which is then
\* looked up while the files change
NextFresh ==
  \/ \E o \in {Base(PathA), Base(PathB), AltOptions @@ Base(PathA)} :
       OptimizeOne(o, "ok", "none")
  \/ \E p \in {PathA, PathB} : CacheGet(DefaultCacheDir, p, "none")
  \/ \E p \in DOMAIN fs, b \in ArtifactContents : OverwriteArtifact(p, b)
  \/ \E b \in InputContents : WriteInput(PathA, b)

SpecFresh == Init /\ [][NextFresh]_vars

\* the pipeline
Next ==
  \/ \E o \in ValidRequests, engine \in EngineOutcomes :
       OptimizeOne(o, engine, "none")
  \/ \E o \in InvalidRequests : OptimizeOne(o, "ok", "none")
  \/ \E fault \in Faults : OptimizeOne(Base(PathA), "ok", fault)
  \/ \E p \in {PathA}, b \in InputContents : WriteInput(p, b)
  \/ \E p \in DOMAIN fs : RemoveArtifact(p)

Spec == Init /\ [][Next]_vars

\* the batch entry point
NextBatch ==
  \E inputPaths \in BatchInputs, engineFails \in SUBSET {PathB} :
    OptimizeMany(inputPaths, "out", BatchOptions,
                 [i \in 1..Len(inputPaths) |->
                    IF inputPaths[i] \in engineFails THEN "throw" ELSE "ok"])

SpecBatch == Init /\ [][NextBatch]_vars

\* the inputs of the batches that are run one await at a time
LoopInputs == SeqsUpTo({PathA, PathBad}, MaxBatch)

\* the batch entry point, one await at a time
NextLoop ==
  \/ \E inputPaths \in LoopInputs : LoopBegin(inputPaths, "out", BatchOptions)
  \/ LoopCall
  \/ \E i \in 1..MaxBatch, engine \in {"ok", "throw"} : LoopSettle(i, engine)
  \/ LoopReturn

\* the loop moves on: it calls, a call settles, or it returns
LoopProgress ==
  \/ CallStep
  \/ \E i \in 1..MaxBatch : SettleStep(i)
  \/ ReturnStep

\* every pending call settles and the loop goes on after each await
SpecLoop == Init /\ [][NextLoop]_vars /\ WF_batch(LoopProgress)

----------------------------------------------------------------------------
(* Properties of the cache (SpecCache)                                     *)

\* the scalar fields of an OptimizationResult
ScalarFields(r) ==
  <<r.reduction, r.css, r.fontFamily, r.fontWeight, r.original.size,
    r.optimized.size, r.optimized.path>>

\* the get that has just run looked at an entry
GetSawEntry == last.op = "get" /\ last.fault = "none" /\ last.pre.entry # <<>>

\* the get that has just run directly follows a set of the same input on the
\* same instance, the input was readable, nothing failed in the storage and
\* the artifact of the stored result exists
SetThenGet ==
  /\ last.op = "get" /\ prev.op = "set"
  /\ prev.fault = "none" /\ last.fault = "none"
  /\ prev.readable
  /\ fileExists(fs, prev.result.optimized.path)

\* C1: set(p, r) followed immediately by get(p), the artifact of r existing,
\* returns a result whose scalar fields (reduction, css, fontFamily,
\* fontWeight, original size, optimized size, optimized path) are those of r
C1_RoundTrip ==
  SetThenGet =>
    /\ last.ret # NullResult
    /\ ScalarFields(last.ret) = ScalarFields(prev.result)

C1_Witness ==
  /\ SetThenGet
  /\ last.ret # NullResult
  /\ last.ret.original.path # prev.result.original.path

\* the entry a get looked at was written for other input bytes than those
\* the file holds now
InputChanged ==
  /\ GetSawEntry
  /\ last.pre.input # <<>> /\ last.pre.input[1].type = "file"
  /\ last.pre.entry[1].entry.inputHash # MD5(last.pre.input[1].bytes)

\* C2: a get that finds the input's bytes changed since the entry was
\* written returns absent and removes the entry
C2_ContentChangeInvalidates ==
  InputChanged =>
    /\ last.ret = NullResult
    /\ ~HasEntry(cache, last.dir, last.path)

C2_Witness ==
  /\ InputChanged
  /\ last.pre.entry[1].entry.version = cacheVersion
  /\ last.pre.artifact
  /\ last.ret = NullResult
  /\ ~HasEntry(cache, last.dir, last.path)

\* the artifact the entry refers to is gone, the input is still there
ArtifactMissing ==
  /\ GetSawEntry
  /\ last.pre.input # <<>> /\ last.pre.input[1].type = "file"
  /\ ~last.pre.artifact

\* C3: a get that finds the artifact of the entry deleted returns absent and
\* removes the entry
C3_MissingArtifactInvalidates ==
  ArtifactMissing =>
    /\ last.ret = NullResult
    /\ ~HasEntry(cache, last.dir, last.path)

C3_Witness ==
  /\ ArtifactMissing
  /\ last.pre.entry[1].entry.version = cacheVersion
  /\ last.pre.entry[1].entry.inputHash = MD5(last.pre.input[1].bytes)
  /\ last.ret = NullResult
  /\ ~HasEntry(cache, last.dir, last.path)

\* the entry a get looked at carries another version tag
VersionDiffers ==
  /\ GetSawEntry
  /\ last.pre.entry[1].entry.version # cacheVersion

\* the entries of the other keys, now
OtherEntries(dir, inputPath) ==
  IF dir \in DOMAIN cache THEN Del(cache[dir], getCacheKey(inputPath))
  ELSE EmptyMap

\* C4: a get on an entry of another schema version deletes that entry and
\* returns absent, whatever the input and the artifact are, and leaves the
\* entries of the other keys as they were
C4_VersionInvalidates ==
  VersionDiffers =>
    /\ last.ret = NullResult
    /\ ~HasEntry(cache, last.dir, last.path)
    /\ OtherEntries(last.dir, last.path) = last.pre.rest

C4_Witness ==
  /\ VersionDiffers
  /\ last.pre.input # <<>>
  /\ last.pre.entry[1].entry.inputHash = MD5(last.pre.input[1].bytes)
  /\ last.pre.artifact
  /\ last.pre.rest # EmptyMap
  /\ last.ret = NullResult
  /\ ~HasEntry(cache, last.dir, last.path)
  /\ OtherEntries(last.dir, last.path) = last.pre.rest

----------------------------------------------------------------------------
(* Properties of the pipeline (Spec)                                       *)

\* how often the call recorded in rec invoked the subsetting engine
EngineCalls(rec) ==
  Cardinality({i \in DOMAIN rec.events : rec.events[i] = "engine"})

\* the position of step e in the call recorded in rec (0: not attempted)
StepOf(rec, e) ==
  IF \E i \in DOMAIN rec.events : rec.events[i] = e
  THEN CHOOSE i \in DOMAIN rec.events : rec.events[i] = e
  ELSE 0

\* optimizeFont has just run a second time in a row with the same options,
\* caching enabled, the first call having succeeded, no storage call failing
TwiceInARow ==
  /\ last.op = "optimizeFont" /\ prev.op = "optimizeFont"
  /\ Opt(last.options, "cache", TRUE)
  /\ prev.outcome.kind = "result"
  /\ prev.fault = "none" /\ last.fault = "none"

\* C5: two optimizeFont calls in a row on an unchanged input with caching
\* enabled return the same result, and the engine is invoked once across the
\* two calls (not at all when the first call was already served by the cache)
C5_Idempotent ==
  TwiceInARow =>
    /\ last.outcome = prev.outcome
    /\ EngineCalls(last) = 0
    /\ EngineCalls(prev) + EngineCalls(last) =
         (IF StepOf(prev, "stat.input") > 0 THEN 1 ELSE 0)

C5_Witness ==
  /\ TwiceInARow
  /\ EngineCalls(prev) = 1
  /\ EngineCalls(last) = 0
  /\ ScalarFields(last.outcome) = ScalarFields(prev.outcome)

\* the optimizeFont that has just run had a request that passes validation,
\* caching enabled, and a valid entry for its input path in front of it
ValidEntryFound ==
  /\ last.op = "optimizeFont" /\ last.fault = "none"
  /\ RunValidation(fs, last.options, "none") = NoError
  /\ Opt(last.options, "cache", TRUE)
  /\ last.pre.entry # <<>> /\ last.pre.input # <<>>
  /\ last.pre.entry[1].entry.version = cacheVersion
  /\ last.pre.entry[1].entry.inputHash = MD5(last.pre.input[1].bytes)
  /\ last.pre.artifact

\* C6: with a valid entry for the input path, optimizeFont returns the
\* cached result whatever the other parameters of the request are, without
\* invoking the engine and without writing any file
C6_PathOnlyKey ==
  ValidEntryFound =>
    /\ last.outcome = entryToResult(last.pre.entry[1].entry, last.path)
    /\ EngineCalls(last) = 0
    /\ ~last.wrote

C6_Witness ==
  /\ ValidEntryFound
  /\ last.options.outputDir = "out2"
  /\ last.outcome.kind = "result"
  /\ last.outcome.fontWeight # Opt(last.options, "fontWeight", 400)
  /\ last.outcome.optimized.path.dir # last.options.outputDir
  /\ ~last.wrote

\* the request of the optimizeFont that has just run fails validation
ValidationFails ==
  /\ last.op = "optimizeFont"
  /\ RunValidation(fs, last.options, last.fault) # NoError

\* C7: when the request fails validation the error is raised after the one
\* validation and nothing else: no cache get or set, no engine call, no file
\* written
C7_ValidationFirst ==
  ValidationFails =>
    /\ last.outcome.kind = "error"
    /\ last.events = <<"validate">>
    /\ ~last.wrote
    /\ ~last.stored

C7_Witness ==
  /\ ValidationFails
  /\ last.path = PathA
  /\ last.pre.entry # <<>>
  /\ last.pre.artifact
  /\ last.outcome.kind = "error"
  /\ last.events = <<"validate">>

\* optimizeFont has just raised
HasRaised == last.op = "optimizeFont" /\ last.outcome.kind = "error"

ErrorKinds == ValidationKinds \cup {"FontOptimizationError"}

WroteEntry ==
  /\ last.op = "optimizeFont"
  /\ last.stored
  /\ HasEntry(cache, last.pre.dir, last.path)
  /\ <<EntryOf(cache, last.pre.dir, last.path)>> # last.pre.entry

\* C10: an entry written by optimizeFont is stored after the optimized font
\* it refers to has been written, that file exists when the entry appears,
\* and a result returned by optimizeFont (from the cache or not) refers to
\* an existing file
C10_EntryAfterArtifact ==
  /\ WroteEntry =>
       /\ 0 < StepOf(last, "write")
       /\ StepOf(last, "write") < StepOf(last, "cache.set")
       /\ fileExists(fs, EntryOf(cache, last.pre.dir, last.path).entry.result.outputPath)
  /\ (last.op = "optimizeFont" /\ last.outcome.kind = "result") =>
       fileExists(fs, last.outcome.optimized.path)

C10_Witness ==
  /\ WroteEntry
  /\ last.pre.entry # <<>>
  /\ ~last.pre.artifact
  /\ last.outcome.kind = "result"
  /\ fileExists(fs, EntryOf(cache, last.pre.dir, last.path).entry.result.outputPath)

----------------------------------------------------------------------------
(* Properties of the batch entry point (SpecBatch)                         *)

IsResult(x) == x.kind = "result"

\* C9: optimizeFonts returns, for any list of inputs, exactly the results of
\* the inputs whose optimizeFont succeeded, in the order of the inputs
C9_BatchPartialFailure ==
  last.op = "optimizeFonts" =>
    /\ Len(last.calls) = Len(last.inputPaths)
    /\ last.results = SelectSeq(last.calls, IsResult)
    /\ \A i \in DOMAIN last.calls :
         IsResult(last.calls[i]) =>
           last.calls[i].original.path = last.inputPaths[i]

C9_Witness ==
  /\ last.op = "optimizeFonts"
  /\ last.inputPaths = <<PathA, PathBad, PathB>>
  /\ last.calls[2].kind = "error"
  /\ last.calls[2].error.name = "InvalidFontError"
  /\ Len(last.results) = 2
  /\ last.results[1].original.path = PathA
  /\ last.results[2].original.path = PathB

----------------------------------------------------------------------------
(* Failures of the cache inside the pipeline (Spec)                        *)

\* the optimizeFont that has just run could not write its cache entry
CacheWriteFailed ==
  /\ last.op = "optimizeFont"
  /\ last.fault \in {"mkdir", "writeFile"}

\* C12: when the write of the cache entry fails, optimizeFont still returns
\* the result it computed for its input, the optimized font it names is in
\* place with the size it reports, and there is no entry for the input
C12_CacheWriteFailureHidden ==
  CacheWriteFailed =>
    /\ last.outcome.kind = "result"
    /\ last.outcome.original.path = last.path
    /\ StepOf(last, "cache.set") > StepOf(last, "write")
    /\ fileExists(fs, last.outcome.optimized.path)
    /\ StatSize(fs, last.outcome.optimized.path) = last.outcome.optimized.size
    /\ ~HasEntry(cache, last.pre.dir, last.path)

C12_Witness ==
  /\ CacheWriteFailed
  /\ last.fault = "writeFile"
  /\ last.outcome.kind = "result"
  /\ EngineCalls(last) = 1
  /\ last.wrote
  /\ ~HasEntry(cache, last.pre.dir, last.path)

----------------------------------------------------------------------------
(* The empty input file (Spec)                                             *)

\* the optimizeFont that has just run was given an existing file of 0 bytes
\* with a supported extension, the other fields of the request being valid
ZeroByteInput ==
  /\ last.op = "optimizeFont"
  /\ Has(last.options, "inputPath")
  /\ IsFile(fs, last.path)
  /\ Bytes(fs, last.path) = <<>>
  /\ ToLowerCase(extname(last.path)) \in SUPPORTED_FORMATS
  /\ last.options \in {Base(last.path), AltOptions @@ Base(last.path)}

\* C20: an input file of 0 bytes with a supported extension makes
\* optimizeFont raise an InvalidFontError for that file, not a
\* FontOptimizationError, right after the validation: no cache lookup, no
\* read of the font by the pipeline, no engine call
C20_ZeroByteInput ==
  ZeroByteInput =>
    /\ last.outcome.kind = "error"
    /\ last.outcome.error.name = "InvalidFontError"
    /\ last.outcome.error.fontPath = last.path
    /\ last.events = <<"validate">>
    /\ ~last.wrote /\ ~last.stored

C20_Witness ==
  /\ ZeroByteInput
  /\ last.path = PathEmpty
  /\ Has(last.options, "format")
  /\ last.outcome.kind = "error"
  /\ last.outcome.error.name = "InvalidFontError"

----------------------------------------------------------------------------
(* FontCache.delete (SpecCache)                                            *)

\* a delete has just run and its unlink, if any, did not fail
Deleted == last.op = "delete" /\ last.fault = "none"

\* C16: delete(p) leaves no entry for p, so that a get(p) returns null; it
\* changes nothing when there was no entry, in particular when it follows a
\* delete(p); and the entries of the other keys are what they were
C16_DeleteIdempotent ==
  Deleted =>
    /\ ~HasEntry(cache, last.dir, last.path)
    /\ FontCache_get(cache, fs, last.dir, last.path, "none").ret = NullResult
    /\ OtherEntries(last.dir, last.path) = last.pre.rest
    /\ last.pre.entry = <<>> => ~last.stored
    /\ prev.op = "delete" /\ prev.fault = "none" => ~last.stored

C16_Witness ==
  /\ Deleted
  /\ prev.op = "delete" /\ prev.fault = "none"
  /\ prev.pre.entry # <<>>
  /\ prev.stored
  /\ ~last.stored
  /\ last.pre.rest # EmptyMap
  /\ OtherEntries(last.dir, last.path) = last.pre.rest

----------------------------------------------------------------------------
(* The maintenance operations of the cache (SpecMaint)                     *)

\* a clear has just run and none of its storage calls failed
Cleared == last.op = "clear" /\ last.fault = "none"

\* C13: after clear() the directory holds no entry file: get returns null
\* for every path, whatever had been cached for it, and getStats().entries
\* is 0
C13_ClearEmpties ==
  Cleared =>
    /\ FilesOf(cache, last.dir) = EmptyMap
    /\ \A p \in CachePaths :
         FontCache_get(cache, fs, last.dir, p, "none").ret = NullResult
    /\ FontCache_getStats(cache, last.dir, "none", {}).entries = 0

C13_Witness ==
  /\ Cleared
  /\ Cardinality(DOMAIN last.pre) = 2
  /\ \E k \in DOMAIN last.pre :
       /\ Parseable(last.pre[k])
       /\ fileExists(fs, last.pre[k].entry.result.outputPath)
  /\ FilesOf(cache, last.dir) = EmptyMap

\* a cleanOld has just run and none of its storage calls failed
Cleaned == last.op = "cleanOld" /\ last.fault = "none"

\* C14: cleanOld(0) deletes every entry, also one whose timestamp is the
\* clock value at which cleanOld runs, and returns the number of entries
\* that were there
C14_CleanOldZeroRemovesAll ==
  Cleaned /\ last.maxAgeMs = 0 =>
    /\ FilesOf(cache, last.dir) = EmptyMap
    /\ last.ret = Cardinality(DOMAIN last.pre)

\* the entries that were older than maxAgeMs when the cleanOld just run began
OlderThanMaxAge ==
  {k \in DOMAIN last.pre :
     /\ Parseable(last.pre[k])
     /\ last.pre[k].entry.timestamp < last.at - last.maxAgeMs}

\* the directory as it was before the operation just run
StoreBefore == [d \in {last.dir} |-> last.pre]

Counted == last.op = "getStats" /\ last.fault = "none"

\* the keys of the entry files getStats could parse
ParseableKeys == {k \in DOMAIN last.pre : Parseable(last.pre[k])}

\* the timestamps of those entries
Timestamps == {last.pre[k].entry.timestamp : k \in ParseableKeys}

RECURSIVE SizeSum(_, _)
\* the sizes of the files of keys, added up
SizeSum(files, keys) ==
  IF keys = {} THEN 0
  ELSE LET k == CHOOSE x \in keys : TRUE
       IN FileSize(files[k]) + SizeSum(files, keys \ {k})

\* C17: getStats returns the number of entry files, malformed ones
\* included, the sum of their sizes, and the least and the greatest
\* timestamp of the entries that parse; the two are null exactly when no
\* entry parses; without a storage root it returns 0, 0, null, null
C17_GetStats ==
  Counted =>
    /\ last.ret.entries = Cardinality(DOMAIN last.pre)
    /\ last.ret.totalSize = SizeSum(last.pre, DOMAIN last.pre)
    /\ last.ret.oldestEntry = <<>> <=> ParseableKeys = {}
    /\ last.ret.newestEntry = <<>> <=> ParseableKeys = {}
    /\ ParseableKeys # {} =>
         /\ last.ret.oldestEntry[1] \in Timestamps
         /\ last.ret.newestEntry[1] \in Timestamps
         /\ \A t \in Timestamps :
              last.ret.oldestEntry[1] <= t /\ t <= last.ret.newestEntry[1]
         /\ last.ret.oldestEntry[1] <= last.ret.newestEntry[1]
    /\ ~last.root => last.ret = NoStats

C17_Witness ==
  /\ Counted
  /\ last.ret.entries = 2
  /\ Cardinality(ParseableKeys) = 1
  /\ last.ret.totalSize > 400
  /\ last.ret.oldestEntry # <<>>
  /\ last.ret.oldestEntry = last.ret.newestEntry

----------------------------------------------------------------------------
(* Storage failures in the cache operations (SpecMaint)                    *)

\* the entry files the operation just run could not use: a failing read or
\* unlink hit them, or they do not parse
Unusable ==
  {k \in DOMAIN last.pre :
     \/ ~Parseable(last.pre[k])
     \/ last.fault \in {"readFile", "unlink"} /\ k \in last.failing}

\* a storage problem met the cache operation that has just run
StorageProblem ==
  \/ /\ last.op \in {"get", "set", "delete"}
     /\ last.fault # "none"
  \/ /\ last.op = "get"
     /\ last.pre.entry # <<>>
     /\ ~Parseable(last.pre.entry[1])
  \/ /\ last.op \in {"clear", "getStats", "cleanOld"}
     /\ last.fault # "none" \/ Unusable # {}

UsableTimestamps ==
  {last.pre[k].entry.timestamp : k \in DOMAIN last.pre \ Unusable}

----------------------------------------------------------------------------
(* Properties of calls in flight together (SpecConc)                       *)

\* a call has just run one of its awaits
Stepped(did, pc) ==
  /\ last.op = "conc"
  /\ last.did = did
  /\ last.pc = pc

\* a set for the same input path is between its open and its return
OtherWriter ==
  \E i \in Procs \ {last.proc} :
    /\ procs[i].op = "set"
    /\ procs[i].pc \in {"open", "write"}
    /\ Resolve(procs[i].path) = Resolve(last.path)

\* C18: calls for the same input path never corrupt its entry: the file a
\* get reads is always a whole entry, and when the last of the writers
\* returns the file holds exactly the entry that writer wrote.
C18_SameKeyNeverCorrupts ==
  /\ (Stepped("get", "read") /\ last.saw # <<>>) => Parseable(last.saw[1])
  /\ (/\ Stepped("set", "write")
      /\ ~OtherWriter
      /\ HasEntry(cache, DirectDir, last.path))
       => EntryOf(cache, DirectDir, last.path) = EntryFile(last.given[1])

\* the file of the entry of inputPath in a storage, <<>> if there is none
FileAt(c, inputPath) ==
  IF HasEntry(c, DirectDir, inputPath)
  THEN <<EntryOf(c, DirectDir, inputPath)>> ELSE <<>>

\* C19: calls for different input paths do not affect each other: however
\* get, set and delete calls are interleaved, each call is at the same
\* point and has returned the same value, and each input path has the same
\* entry file, as when only the calls for that input path run.
C19_DifferentKeyIsolation ==
  /\ procs = alone.procs
  /\ \A p \in ConcPaths :
       FileAt(cache, p) = FileAt(alone.store[Resolve(p)], p)

\* a get returns a hit while a set for another input path is in the middle
\* of its write
C19_Witness ==
  /\ Stepped("get", "output")
  /\ last.ret # <<>>
  /\ last.ret[1] # NullResult
  /\ \E i \in Procs \ {last.proc} :
       /\ procs[i].op = "set"
       /\ procs[i].pc = "write"
       /\ Resolve(procs[i].path) # Resolve(last.path)

----------------------------------------------------------------------------
(* The limits of validation (SpecValidate)                                 *)

\* the request o without its field k
Without(o, k) == [x \in DOMAIN o \ {k} |-> o[x]]

\* optimizeFont has just run with a request that gives a weight and that
\* passes validateOptimizationOptions when the weight is left out
WeightGiven ==
  /\ last.op = "optimizeFont"
  /\ Has(last.options, "fontWeight")
  /\ validateOptimizationOptions(fs, Without(last.options, "fontWeight")) = NoError

\* the call raised the ValidationError of the font weight
WeightRejected ==
  /\ last.outcome.kind = "error"
  /\ last.outcome.error.name = "ValidationError"
  /\ last.outcome.error.field = "fontWeight"
  /\ last.outcome.error.value = <<last.options.fontWeight>>

\* C21: a request whose other fields are valid and whose fontWeight is
\* below 100 or above 900 fails with a ValidationError whose field is
\* fontWeight and whose value is that weight; a weight from 100 to 900
\* passes validateOptimizationOptions and raises no such error.
C21_WeightRange ==
  WeightGiven =>
    IF last.options.fontWeight < 100 \/ last.options.fontWeight > 900
    THEN WeightRejected
    ELSE /\ validateOptimizationOptions(fs, last.options) = NoError
         /\ ~WeightRejected

C21_Witness ==
  /\ WeightGiven
  /\ last.options.fontWeight = 1000
  /\ WeightRejected

\* the weight, the subsets and the format the call works with (lines 109-121)
Effective_weight(o)  == Opt(o, "fontWeight", 400)
Effective_subsets(o) == Opt(o, "subsets", ArrayOf(DEFAULT_SUBSETS)).items
Effective_format(o)  == Opt(o, "format", "woff2")

\* the request invariant: weight, subsets and format are all well-formed
WellFormed(o) ==
  /\ Effective_weight(o) >= 100 /\ Effective_weight(o) <= 900
  /\ Effective_subsets(o) # <<>>
  /\ \A i \in DOMAIN Effective_subsets(o) :
       Effective_subsets(o)[i] \in DOMAIN SUBSET_CONFIGS
  /\ Effective_format(o) \in SUPPORTED_OUTPUT_FORMATS

\* C22: every request that passes validation, and so every request that
\* reaches the subsetting engine, has a weight from 100 to 900, a non-empty
\* list of subsets made of recognized names only, and a format that is
\* woff2, woff or ttf.
C22_RequestInvariant ==
  /\ (last.op = "optimizeFont" /\ ~ValidationFails) => WellFormed(last.options)
  /\ (last.op = "optimizeFont" /\ EngineCalls(last) > 0)
       => WellFormed(last.options)

----------------------------------------------------------------------------
(* The exported helpers (SpecUtil)                                         *)

Abs(x) == IF x < 0 THEN 0 - x ELSE x

\* calculateReduction has just run on an original size above 0
Reduced ==
  /\ last.op = "calculateReduction"
  /\ last.original > 0

\* C23: for an original size above 0 the reduction is
\* (1 - optimized / original) * 100 rounded to one decimal (no number with
\* one decimal is nearer to it): 1000 and 500 give "50.0", 1000 and 1000 give
\* "0.0"; and it lies between 0 and 100 when 0 <= optimized <= original.
C23_Reduction ==
  Reduced =>
    /\ last.ret.finite
    /\ 2 * Abs(last.ret.tenths * last.original
               - 1000 * (last.original - last.optimized)) <= last.original
    /\ (last.original = 1000 /\ last.optimized = 500) => last.ret.tenths = 500
    /\ (last.original = 1000 /\ last.optimized = 1000) => last.ret.tenths = 0
    /\ last.optimized <= last.original
         => (last.ret.tenths >= 0 /\ last.ret.tenths <= 1000)

\* a reduction that had to be rounded up: 1 - 4 / 7 is 42.857...%
C23_Witness ==
  /\ Reduced
  /\ last.original = 7 /\ last.optimized = 4
  /\ last.ret.tenths = 429

\* the rows of weightMap whose key occurs in the filename, whatever the case
\* of its letters
Occurring(filename) ==
  {i \in DOMAIN weightMap :
     \E k \in 1 .. Len(filename) :
       /\ k + Len(weightMap[i][1]) - 1 <= Len(filename)
       /\ \A d \in 1 .. Len(weightMap[i][1]) :
            LET c == filename[k + d - 1]
            IN weightMap[i][1][d] = (IF c \in DOMAIN LowerOf THEN LowerOf[c] ELSE c)}

\* "italic" or "oblique" occurs in the filename, whatever the case
Slanted(filename) ==
  \E key \in {<<"i", "t", "a", "l", "i", "c">>,
              <<"o", "b", "l", "i", "q", "u", "e">>} :
    \E k \in 1 .. Len(filename) :
      /\ k + Len(key) - 1 <= Len(filename)
      /\ \A d \in 1 .. Len(key) :
           LET c == filename[k + d - 1]
           IN key[d] = (IF c \in DOMAIN LowerOf THEN LowerOf[c] ELSE c)

\* C26: parseFontWeight returns the weight of the first keyword, in the
\* order of the table, that occurs in the filename whatever its case, and
\* 400 when none occurs; parseFontStyle returns normal when neither italic
\* nor oblique occurs, italic otherwise; vazir-bold.ttf gives 700 and normal,
\* iransans-light.ttf gives 300.
C26_WeightStyleInference ==
  last.op = "parseFontName" =>
    /\ IF Occurring(last.filename) = {} THEN last.weight = 400
       ELSE \E i \in Occurring(last.filename) :
              /\ \A j \in Occurring(last.filename) : i <= j
              /\ last.weight = weightMap[i][2]
    /\ last.style = (IF Slanted(last.filename) THEN "italic" ELSE "normal")
    /\ last.filename = <<"v", "a", "z", "i", "r", "-", "b", "o", "l", "d",
                         ".", "t", "t", "f">>
         => (last.weight = 700 /\ last.style = "normal")
    /\ last.filename = <<"i", "r", "a", "n", "s", "a", "n", "s", "-", "l",
                         "i", "g", "h", "t", ".", "t", "t", "f">>
         => last.weight = 300

\* an upper-case name with two keywords: BOLD comes before ULTRABOLD in the
\* table, so the weight is 700
C26_Witness ==
  /\ last.op = "parseFontName"
  /\ last.filename = <<"I", "R", "A", "N", "S", "A", "N", "S", "-", "U", "L",
                       "T", "R", "A", "B", "O", "L", "D", ".", "T", "T", "F">>
  /\ Cardinality(Occurring(last.filename)) = 2
  /\ last.weight = 700
  /\ last.style = "normal"

----------------------------------------------------------------------------
(* The name of the optimized font (Spec)                                   *)

\* optimizeFont has just produced a result of its own (not one of the
\* cache) with hashing disabled
UnhashedOutput ==
  /\ last.op = "optimizeFont"
  /\ last.outcome.kind = "result"
  /\ EngineCalls(last) = 1
  /\ ~Opt(last.options, "useHash", TRUE)

\* the file <stem><extension of the target format> in the output directory
NamedAfter(stem) ==
  JoinPath(last.options.outputDir,
           [stem |-> stem,
            ext |-> FormatExtension(Opt(last.options, "format", "woff2"))])

\* C24 as stated: with hashing disabled the output file is named after the
\* resolved family name, followed by the extension of the target format.
C24_FamilyNamesOutput ==
  UnhashedOutput =>
    last.outcome.optimized.path = NamedAfter(last.outcome.fontFamily)

\* C24: with hashing disabled the output file is named after the input
\* file (its base name without the extension), followed by the extension of
\* the target format, whatever fontFamily the request gives; the file is in
\* the output directory once the call has returned.
C24_InputNamesOutput ==
  UnhashedOutput =>
    /\ last.outcome.optimized.path = NamedAfter(last.path.stem)
    /\ IsFile(fs, NamedAfter(last.path.stem))

\* a request with an explicit family that is not the name of the input file
C24_Witness ==
  /\ UnhashedOutput
  /\ Has(last.options, "fontFamily")
  /\ last.outcome.fontFamily = last.options.fontFamily
  /\ last.outcome.fontFamily # last.path.stem
  /\ last.outcome.optimized.path = NamedAfter(last.path.stem)

----------------------------------------------------------------------------
(* The stylesheet of a batch (SpecCss)                                     *)

\* the stylesheet generateOptimizedCSS has just written
Stylesheet == Bytes(fs, last.outputPath)[1]

\* what an @font-face fragment declares; a fragment made without a style or
\* a display declares the usual ones
Declared(fragment) ==
  [fontFamily |-> fragment[2].fontFamily,
   fontWeight |-> fragment[2].fontWeight,
   fontStyle |-> Opt(fragment[2], "fontStyle", "normal"),
   fontDisplay |-> Opt(fragment[2], "fontDisplay", "swap")]

\* C25: the stylesheet written by generateOptimizedCSS has a header comment
\* and, for every result of the list and in the order of the list, the
\* fragment of that result: it declares the family, the weight, the style
\* and the display of result.css, so that an italic style or a display
\* other than swap is kept.
C25_AggregateKeepsFragments ==
  last.op = "generateOptimizedCSS" =>
    /\ Stylesheet.comments.total = Len(last.results)
    /\ Len(Stylesheet.blocks) = Len(last.results)
    /\ \A i \in DOMAIN last.results :
         Declared(Stylesheet.blocks[i]) = Declared(last.results[i].css)

----------------------------------------------------------------------------
(* The global cache instance (SpecGlobal)                                  *)

\* getGlobalCache has just returned
GotGlobal == last.op = "getGlobalCache"

\* C27: there is one global instance at most, and it is the one
\* getGlobalCache returns; getGlobalCache(d) twice in a row returns the same
\* instance; getGlobalCache(d2) after getGlobalCache(d), d2 another
\* directory, returns a new instance bound to d2; the getGlobalCache(d)
\* after disableCache() returns a new instance.
C27_GlobalInstance ==
  /\ GotGlobal =>
       /\ Len(last.ret) = 1
       /\ last.ret = Instance(globalCache, constructed)
       /\ last.cacheDir # <<>> => last.ret[1].cacheDir = last.cacheDir[1]
  /\ (GotGlobal /\ prev.op = "getGlobalCache" /\ prev.cacheDir = last.cacheDir)
       => last.ret = prev.ret
  /\ (/\ GotGlobal /\ prev.op = "getGlobalCache"
      /\ last.cacheDir # <<>> /\ prev.cacheDir # <<>>
      /\ last.cacheDir # prev.cacheDir)
       => /\ last.ret[1].id > prev.ret[1].id
          /\ last.ret[1].cacheDir = last.cacheDir[1]
  /\ (GotGlobal /\ prev.op = "disableCache")
       => /\ last.before = <<>>
          /\ \A held \in {prev.before, IF "ret" \in DOMAIN prev THEN prev.ret ELSE <<>>} :
               held # <<>> => last.ret[1].id > held[1].id
  /\ last.op = "disableCache" => globalCache = NoInstance

\* the same directory before and after disableCache gives two instances
C27_Witness ==
  /\ GotGlobal
  /\ prev.op = "disableCache"
  /\ prev.before # <<>>
  /\ last.cacheDir = <<prev.before[1].cacheDir>>
  /\ last.ret[1].cacheDir = prev.before[1].cacheDir
  /\ last.ret[1].id = prev.before[1].id + 1

----------------------------------------------------------------------------
(* Hits over any history (SpecHistory)                                     *)

\* what a get saw before it ran is an entry of the current version, written
\* for the bytes the input file holds, whose optimized font exists
Sound(pre) ==
  /\ pre.entry # <<>>
  /\ Parseable(pre.entry[1])
  /\ pre.entry[1].entry.version = cacheVersion
  /\ pre.input # <<>>
  /\ pre.input[1].type = "file"
  /\ pre.entry[1].entry.inputHash = MD5(pre.input[1].bytes)
  /\ pre.artifact

\* C28: after any sequence of set, delete, clear, cleanOld, changes of the
\* input file and deletions of the optimized font, get returns a result only
\* if there is an entry for the path of the current version whose hash is
\* the hash of the current bytes of the input and whose optimized font
\* exists; in every other state it returns absent.
C28_HitSoundness ==
  last.op = "get" =>
    /\ last.ret # NullResult => Sound(last.pre)
    /\ ~Sound(last.pre) => last.ret = NullResult

\* a hit on an entry stored after the clock has moved on
C28_Witness ==
  /\ last.op = "get"
  /\ last.ret # NullResult
  /\ Sound(last.pre)
  /\ prev.op = "set"
  /\ now > 0

----------------------------------------------------------------------------
(* Recovery after a change of the input (Spec)                             *)

\* the call recorded in rec had a valid request, caching enabled, no storage
\* call failing, and in front of it an entry of the current version written
\* for other bytes than the input file holds
Recovering(rec) ==
  /\ rec.op = "optimizeFont" /\ rec.fault = "none"
  /\ Opt(rec.options, "cache", TRUE)
  /\ rec.pre.entry # <<>> /\ Parseable(rec.pre.entry[1])
  /\ rec.pre.entry[1].entry.version = cacheVersion
  /\ rec.pre.input # <<>> /\ rec.pre.input[1].type = "file"
  /\ rec.pre.entry[1].entry.inputHash # MD5(rec.pre.input[1].bytes)
  /\ validateOptimizationOptions(writeFileBuffer(fs, rec.path, rec.pre.input[1].bytes),
                                 rec.options) = NoError
  /\ validateFontFile(writeFileBuffer(fs, rec.path, rec.pre.input[1].bytes),
                      rec.path, FALSE) = NoError

\* C29: when the content of a cached input has changed, the next
\* optimizeFont on it (caching enabled) does not return the stored result:
\* it looks the entry up, misses, and when it succeeds it has invoked the
\* engine once, written the new optimized font and stored an entry for the
\* new bytes that holds the result it returns; the same call made again
\* right after it is a hit that returns that result without the engine.
C29_RecoveryAfterInvalidation ==
  /\ Recovering(last) =>
       /\ StepOf(last, "cache.get") > 0
       /\ last.outcome # entryToResult(last.pre.entry[1].entry, last.path)
       /\ last.outcome.kind = "result" =>
            /\ EngineCalls(last) = 1
            /\ IsFile(fs, last.outcome.optimized.path)
            /\ HasEntry(cache, last.pre.dir, last.path)
            /\ Parseable(EntryOf(cache, last.pre.dir, last.path))
            /\ EntryOf(cache, last.pre.dir, last.path).entry.inputHash
                 = MD5(last.pre.input[1].bytes)
            /\ ScalarFields(entryToResult(
                 EntryOf(cache, last.pre.dir, last.path).entry, last.path))
                 = ScalarFields(last.outcome)
  /\ (TwiceInARow /\ Recovering(prev)) =>
       /\ last.outcome = prev.outcome
       /\ EngineCalls(last) = 0
       /\ EngineCalls(prev) = 1

\* the hit that follows a recovery
C29_Witness ==
  /\ TwiceInARow
  /\ Recovering(prev)
  /\ EngineCalls(prev) = 1
  /\ EngineCalls(last) = 0
  /\ last.outcome = prev.outcome
  /\ last.outcome.original.size = Len(last.pre.input[1].bytes)

----------------------------------------------------------------------------
(* Where cache entries come from (Spec)                                    *)

\* the entry of the input path of the call that has just run is as it was
\* before the call, or gone
NoNewEntry ==
  HasEntry(cache, last.pre.dir, last.path)
    => <<EntryOf(cache, last.pre.dir, last.path)>> = last.pre.entry

\* the call that has just run called the engine and failed at it or right
\* after it, on an empty output
FailedAtEngine ==
  /\ last.op = "optimizeFont"
  /\ last.outcome.kind = "error"
  /\ EngineCalls(last) = 1
  /\ last.events[Len(last.events)] = "engine"

\* C30: optimizeFont calls set only as the last step of a call that missed
\* the cache, called the engine and returns its result; a call that raises
\* an error, or that returns a result of the cache, calls no set and leaves
\* no new entry; a call that fails at the engine or on its empty output
\* writes no file either.
C30_EntriesOnlyBySuccess ==
  last.op = "optimizeFont" =>
    /\ StepOf(last, "cache.set") > 0 =>
         /\ last.outcome.kind = "result"
         /\ EngineCalls(last) = 1
         /\ StepOf(last, "cache.set") = Len(last.events)
         /\ StepOf(last, "write") > 0
    /\ (last.outcome.kind = "error" \/ EngineCalls(last) = 0) =>
         /\ StepOf(last, "cache.set") = 0
         /\ NoNewEntry
         /\ last.pre.rest = OtherEntries(last.pre.dir, last.path)
    /\ FailedAtEngine => ~last.wrote

\* the engine fails: no set, no entry, no file
C30_Witness ==
  /\ FailedAtEngine
  /\ StepOf(last, "cache.set") = 0
  /\ ~HasEntry(cache, last.pre.dir, last.path)
  /\ ~last.wrote

----------------------------------------------------------------------------
(* A lookup running together with a store for the same path (SpecConc)     *)

\* a get has just unlinked the file that was at the entry's path
GetUnlinked ==
  /\ Stepped("get", "unlink")
  /\ last.saw # <<>>

\* C31: a get running together with a set for the same input path removes
\* only the entry that it has itself read and judged stale, never an entry
\* written since by the set (so that the entry of the set is there for the
\* following get).
C31_GetRemovesOnlyStale ==
  GetUnlinked => last.saw[1] = EntryFile(last.given[1])

----------------------------------------------------------------------------
(* Caching disabled (Spec)                                                 *)

\* the record of an optimizeFont whose request has cache: false
CacheOff(rec) ==
  /\ rec.op = "optimizeFont"
  /\ Has(rec.options, "cache")
  /\ ~rec.options.cache

\* there was a valid entry for the input path of the call in the cache of
\* the global instance
ValidEntryInFront ==
  /\ last.pre.entry # <<>> /\ last.pre.input # <<>>
  /\ Parseable(last.pre.entry[1])
  /\ last.pre.entry[1].entry.version = cacheVersion
  /\ last.pre.entry[1].entry.inputHash = MD5(last.pre.input[1].bytes)
  /\ last.pre.artifact

\* C32: with cache: false, optimizeFont performs no cache get and no cache
\* set, leaves the entries, the storage roots and the global instance as
\* they were, and every result it returns was produced by an invocation of
\* the engine in this call, also when a valid entry for the input exists.
C32_CacheOffLeavesCacheAlone ==
  /\ [](CacheOff(last) =>
          /\ StepOf(last, "cache.get") = 0
          /\ StepOf(last, "cache.set") = 0
          /\ ~last.stored
          /\ last.outcome.kind = "result" => EngineCalls(last) = 1)
  /\ [][CacheOff(last') =>
          UNCHANGED <<cache, globalCache, constructed>>]_vars

\* a call with cache: false runs the engine and returns a result while a
\* valid entry for its input is in the cache
C32_Witness ==
  /\ CacheOff(last)
  /\ ValidEntryInFront
  /\ last.outcome.kind = "result"
  /\ EngineCalls(last) = 1
  /\ HasEntry(cache, last.pre.dir, last.path)

----------------------------------------------------------------------------
(* One entry per input path (SpecCache)                                    *)

\* the absolute paths that the calls of SpecCache name
AbsolutePaths == {Resolve(p) : p \in CachePaths}

\* a set has just written its entry
SetWrote ==
  /\ last.op = "set" /\ last.fault = "none"
  /\ last.readable

\* the number of entry files of the directory before the set that has just
\* run
CountBefore ==
  Cardinality(DOMAIN last.pre.rest) + (IF last.pre.entry # <<>> THEN 1 ELSE 0)

\* C33: the cache holds at most one entry per resolved absolute input path;
\* a set replaces the entry of its path (the number of entries grows by one
\* only if the path had none), also when the content of the input changed
\* since the entry was written; every spelling of the same absolute path
\* addresses the entry just written, and spellings of different absolute
\* paths address different entry files.
C33_OneEntryPerPath ==
  /\ \A dir \in DOMAIN cache :
       Cardinality(DOMAIN cache[dir]) <= Cardinality(AbsolutePaths)
  /\ \A p, q \in CachePaths :
       (getCacheKey(p) = getCacheKey(q)) <=> (Resolve(p) = Resolve(q))
  /\ SetWrote =>
       /\ Cardinality(DOMAIN cache[last.dir]) =
            CountBefore + (IF last.pre.entry # <<>> THEN 0 ELSE 1)
       /\ \A q \in CachePaths :
            Resolve(q) = Resolve(last.path) =>
              /\ HasEntry(cache, last.dir, q)
              /\ EntryOf(cache, last.dir, q) =
                   EntryFile(MakeEntry(fs, last.path, last.result, now,
                                       cacheVersion))

\* a set replaces, under another spelling of the path, an entry written for
\* an earlier content of the input, beside the entry of another path
C33_Witness ==
  /\ SetWrote
  /\ last.path = PathA2
  /\ last.pre.entry # <<>>
  /\ Parseable(last.pre.entry[1])
  /\ last.pre.entry[1].entry.inputHash # getFileHash(fs, last.path)
  /\ last.pre.entry[1].entry.version = cacheVersion
  /\ Cardinality(DOMAIN cache[last.dir]) = 2
  /\ CountBefore = 2

----------------------------------------------------------------------------
(* The batch loop, one await at a time (SpecLoop)                          *)

\* the inputs are attempted once each, in the order of the list
InListOrder == \A j \in DOMAIN batch.started : batch.started[j] = j

\* only the call started last can be running
OneInFlight ==
  /\ Cardinality(batch.inFlight) <= 1
  /\ batch.inFlight \subseteq {Len(batch.started)}
  /\ Len(batch.settled) + Cardinality(batch.inFlight) = Len(batch.started)

\* C34: optimizeFonts attempts every input of the list once, in list order,
\* without retry; it calls optimizeFont for an input only when the call for
\* the input before it has returned or thrown, so at most one call is
\* running at any time; and it returns after the last input.
C34_SequentialBatch ==
  /\ [](/\ InListOrder
        /\ Len(batch.started) <= Len(batch.inputPaths)
        /\ OneInFlight
        /\ batch.pc = "done" =>
             /\ batch.settled = batch.started
             /\ Len(batch.settled) = Len(batch.inputPaths)
             /\ Len(last.calls) = Len(batch.inputPaths))
  /\ (batch.pc = "loop") ~> (batch.pc = "done")

\* a batch of three has returned; the call for its second input failed and
\* the third was attempted all the same
C34_Witness ==
  /\ batch.pc = "done"
  /\ batch.inputPaths = <<PathA, PathBad, PathA>>
  /\ batch.started = <<1, 2, 3>>
  /\ last.calls[2].kind = "error"
  /\ Len(last.results) = 2

----------------------------------------------------------------------------
(* The empty character set (Spec)                                          *)

\* the subsets of the request name no recognized subset (the list is empty
\* or every name in it is unknown)
NamesNoSubset(o) ==
  /\ Has(o, "subsets")
  /\ o.subsets # NotAnArray
  /\ \A i \in DOMAIN o.subsets.items :
       o.subsets.items[i] \notin DOMAIN SUBSET_CONFIGS

\* the optimizeFont that has just run had a valid request that names no
\* recognized subset, no I/O failure, and was not served by the cache
EmptyCharacterSet ==
  /\ last.op = "optimizeFont" /\ last.fault = "none"
  /\ RunValidation(fs, last.options, "none") = NoError
  /\ NamesNoSubset(last.options)
  /\ ~(Opt(last.options, "cache", TRUE) /\ ValidEntryInFront)

\* C35: on a cache miss, a request whose subsets name no code point at all
\* fails with a FontOptimizationError that carries the input path; the
\* engine is not invoked, no output file is written and no cache entry is
\* written.
C35_EmptyCharacterSetRejected ==
  EmptyCharacterSet =>
    /\ last.outcome.kind = "error"
    /\ last.outcome.error.name = "FontOptimizationError"
    /\ last.outcome.error.fontPath = last.path
    /\ EngineCalls(last) = 0
    /\ StepOf(last, "write") = 0
    /\ StepOf(last, "cache.set") = 0
    /\ ~last.wrote
    /\ HasEntry(cache, last.pre.dir, last.path) =>
         last.pre.entry = <<EntryOf(cache, last.pre.dir, last.path)>>

\* a request naming only an unknown subset has been rejected after its
\* cache lookup missed
C35_Witness ==
  /\ EmptyCharacterSet
  /\ last.options.subsets.items = <<"klingon">>
  /\ StepOf(last, "cache.get") > 0
  /\ last.outcome.kind = "error"
  /\ last.outcome.error.name = "FontOptimizationError"

----------------------------------------------------------------------------
(* The sizes a hit returns (SpecFresh)                                     *)

\* the get that has just run returned a result
GetHit ==
  /\ last.op = "get"
  /\ last.ret # NullResult

\* C36: the sizes in the result of a hit are the sizes the input file and
\* the optimized artifact have on disk at the time of the get, and the
\* formatted sizes are those of the returned byte counts.
C36_FreshSizesOnHit ==
  GetHit =>
    /\ last.ret.original.size = StatSize(fs, last.ret.original.path)
    /\ last.ret.optimized.size = StatSize(fs, last.ret.optimized.path)
    /\ last.ret.original.sizeFormatted =
         FontCache_formatFileSize(last.ret.original.size)
    /\ last.ret.optimized.sizeFormatted =
         FontCache_formatFileSize(last.ret.optimized.size)

----------------------------------------------------------------------------
(* clear() in a directory that holds other files too (SpecClear)           *)

\* the get that has just run directly follows a set of the same input that
\* found no cache directory and wrote its entry, the artifact of the stored
\* result being there
SetRecreatedRoot ==
  /\ SetThenGet
  /\ ~prev.root

\* C37: clear() unlinks every file of the cache directory, entry file or
\* not, and then removes the directory: after a clear none of whose storage
\* calls failed the directory is gone with all its files; a set after that
\* creates the directory again and the get that follows it is a hit.
C37_ClearRemovesEveryFile ==
  /\ Cleared =>
       /\ last.dir \notin DOMAIN cache
       /\ FilesOf(cache, last.dir) = EmptyMap
  /\ (last.op = "set" /\ last.fault = "none" /\ last.readable) =>
       /\ last.dir \in DOMAIN cache
       /\ HasEntry(cache, last.dir, last.path)
  /\ SetRecreatedRoot =>
       /\ last.ret # NullResult
       /\ ScalarFields(last.ret) = ScalarFields(prev.result)

\* a clear has removed a directory that held a file that is not an entry
\* beside entry files
C37_Witness ==
  /\ Cleared
  /\ StrayName \in DOMAIN last.pre
  /\ \E k \in DOMAIN last.pre : endsWithJson(k) /\ Parseable(last.pre[k])
  /\ last.dir \notin DOMAIN cache

\* a get hits after a set that had to create the directory again
C37_WitnessOfSet ==
  /\ SetRecreatedRoot
  /\ now > 0
  /\ last.ret # NullResult

----------------------------------------------------------------------------
(* Calls that share the global instance (SpecShared)                       *)

\* the optimizeFont recorded in rec used the cache
UsedCache(rec) ==
  /\ rec.op = "optimizeFont"
  /\ StepOf(rec, "cache.get") > 0

\* the directory the call recorded in rec named: <<>> if it named none
NamedDir(rec) ==
  IF rec.op = "getGlobalCache" THEN rec.cacheDir
  ELSE IF UsedCache(rec) /\ Has(rec.options, "cacheDir")
  THEN <<rec.options.cacheDir>>
  ELSE <<>>

\* the call recorded in rec took the global instance without naming a
\* directory
UnnamedCall(rec) ==
  /\ rec.op = "getGlobalCache" \/ UsedCache(rec)
  /\ NamedDir(rec) = <<>>

----------------------------------------------------------------------------
(* Lookups that leave the storage alone (SpecMaint)                        *)

\* the get recorded in rec found an entry file that does not parse
CorruptSeen(rec) ==
  /\ rec.op = "get"
  /\ rec.pre.entry # <<>>
  /\ ~Parseable(rec.pre.entry[1])

\* the get recorded in rec found no entry file, or returned a result
AbsentOrHit(rec) ==
  /\ rec.op = "get"
  /\ rec.pre.entry = <<>> \/ rec.ret # NullResult

\* C39: a get that finds an entry file it cannot parse returns null and
\* leaves the file where it is: getStats goes on counting and sizing it,
\* cleanOld does not remove it whatever the age limit, a set for the same
\* input replaces it with a whole entry and clear removes it; a get that
\* hits and a get that finds no entry file change nothing in the storage
\* either.
C39_CorruptEntryIsPureMiss ==
  /\ [][CorruptSeen(last') \/ AbsentOrHit(last') => cache' = cache]_vars
  /\ [](CorruptSeen(last) =>
          LET files == FilesOf(cache, last.dir)
              key   == getCacheKey(last.path)
              stats == FontCache_getStats(cache, last.dir, "none", {})
          IN /\ last.ret = NullResult
             /\ key \in DOMAIN files
             /\ files[key] = last.pre.entry[1]
             /\ stats.entries = Cardinality(DOMAIN files)
             /\ stats.totalSize = SizeSum(files, DOMAIN files)
             /\ \A maxAgeMs \in MaxAges :
                  LET r == FontCache_cleanOld(cache, last.dir, maxAgeMs, now,
                                              "none", {})
                  IN /\ HasEntry(r.cache, last.dir, last.path)
                     /\ r.ret = Cardinality(DOMAIN files)
                                  - Cardinality(DOMAIN r.cache[last.dir])
             /\ \A r \in MockResults :
                  IsFile(fs, last.path) =>
                    Parseable(EntryOf(FontCache_set(cache, fs, last.dir,
                                                    last.path, r, now, "none"),
                                      last.dir, last.path))
             /\ ~HasEntry(FontCache_clear(cache, last.dir, "none", {}),
                          last.dir, last.path))

\* a get has found a damaged entry file beside a whole entry that is old
\* enough for cleanOld(0)
C39_Witness ==
  /\ CorruptSeen(last)
  /\ last.ret = NullResult
  /\ HasEntry(cache, last.dir, last.path)
  /\ Cardinality(DOMAIN FilesOf(cache, last.dir)) = 2
  /\ FontCache_cleanOld(cache, last.dir, 0, now, "none", {}).ret = 1
  /\ FontCache_getStats(cache, last.dir, "none", {}).entries = 2

----------------------------------------------------------------------------
(* Keys of the weight table that contain other keys (SpecUtil)             *)

\* the keys listed before "bold" in the table
BeforeBold ==
  {<<"t", "h", "i", "n">>,
   <<"e", "x", "t", "r", "a", "l", "i", "g", "h", "t">>,
   <<"u", "l", "t", "r", "a", "l", "i", "g", "h", "t">>,
   <<"l", "i", "g", "h", "t">>,
   <<"r", "e", "g", "u", "l", "a", "r">>,
   <<"n", "o", "r", "m", "a", "l">>,
   <<"m", "e", "d", "i", "u", "m">>,
   <<"s", "e", "m", "i", "b", "o", "l", "d">>,
   <<"d", "e", "m", "i", "b", "o", "l", "d">>}

\* the filename of the call that has just run says extrabold or ultrabold,
\* in whatever case, and has none of the keys listed before "bold"
NamedExtraBold ==
  /\ last.op = "parseFontName"
  /\ \E key \in {<<"e", "x", "t", "r", "a", "b", "o", "l", "d">>,
                 <<"u", "l", "t", "r", "a", "b", "o", "l", "d">>} :
       includes(toLowerCase(last.filename), key)
  /\ \A key \in BeforeBold : ~includes(toLowerCase(last.filename), key)

\* C40: parseFontWeight returns 700 for a filename that says extrabold or
\* ultrabold and has no key listed before "bold"; it returns 800 for no
\* filename; the weight it returns is one of 100, 200, 300, 400, 500, 600,
\* 700 and 900, and a request with that weight passes the validation of the
\* options.
C40_BoldShadowsExtraBold ==
  last.op = "parseFontName" =>
    /\ NamedExtraBold => last.weight = 700
    /\ last.weight \in {100, 200, 300, 400, 500, 600, 700, 900}
    /\ validateOptimizationOptions(
         fs, [fontWeight |-> last.weight] @@ Base(PathA)) = NoError

\* a lower-case extrabold italic file has been given the weight 700
C40_Witness ==
  /\ NamedExtraBold
  /\ includes(last.filename, <<"e", "x", "t", "r", "a", "b", "o", "l", "d">>)
  /\ last.style = "italic"
  /\ last.weight = 700

====
